---- MODULE Spec2Model ----
(***************************************************************************)
(* Generation orchestrator of the course backend: the Job Registry and     *)
(* Event Bus (services/generation_tracker.py), the lifecycle state machine *)
(* (services/progression.py), the generation pipeline                      *)
(* (services/generation.py) and the endpoints that drive them              *)
(* (routers/courses.py).                                                   *)
(***************************************************************************)
EXTENDS Integers, Sequences, FiniteSets, TLC

(* ------------------------------ bounds -------------------------------- *)
\* number of asyncio tasks the registry may spawn in one behaviour
MaxTasks == 3
\* number of subscriber queues (connected stream clients)
MaxQueues == 2
\* number of objectives of the course, and of its Lesson rows
MaxObjectives == 2
\* number of Assessment rows of the course
MaxAssessments == 1
\* number of trigger_generation requests made in one behaviour
MaxRequests == 2
\* number of generation_stream connections made in one behaviour
MaxClients == 1
\* cap on the length of a subscriber queue in the registry specification
MaxQueueLen == 2
\* number of generation_stream connections that watch one generation run
MaxWatchers == 2

(* --------------------------- program constants ------------------------ *)
\* asyncio.Queue() is built without a maxsize: 0 means unbounded
QueueMaxsize == 0

\* Python None
Null == "null"

NoTask == 0
TaskIds == 1..MaxTasks
QueueIds == 1..MaxQueues

\* resource keys: the course id, and the assessment key derived from it
CourseId == "c1"
_assessment_key(course_id) == "assessment-" \o course_id
Keys == {CourseId, _assessment_key(CourseId)}

VARIABLES
    active_tasks,   \* _active_tasks: key -> task id, NoTask when the key is absent
    tasks,          \* the asyncio tasks: id -> [state, key]
    callbacks,      \* done callbacks scheduled with call_soon and not yet run
    nextTask,       \* id of the next task asyncio.create_task will build
    startResult,    \* outcome of the latest start_generation call
    subscribers,    \* _subscribers: a dict from key to list of queues
    queue,          \* contents of each asyncio.Queue
    held,           \* queues whose creator still holds a reference
    lc_course,      \* the course update_course_state has loaded
    lc_result,      \* what the latest transition_course call did
    objectives,     \* len(course.input_objectives), fixed when the course is created
    db_status,      \* committed CourseInstance.status
    db_lessons,     \* committed Lesson rows, in insertion order
    db_assessments, \* number of committed Assessment rows
    req,            \* the trigger_generation request handlers
    job,            \* the generate_course_background coroutine of each task
    published,      \* the events each task has broadcast, in order
    calls,          \* the external calls each task has made: <<agent, index, ok>>
    client          \* the generation_stream handlers

regVars == <<active_tasks, tasks, callbacks, nextTask, startResult>>
busVars == <<subscribers, queue, held>>
lcVars == <<lc_course, lc_result>>
dbVars == <<objectives, db_status, db_lessons, db_assessments>>
sysVars == <<dbVars, req, job, published, calls, client>>
vars == <<regVars, busVars, lcVars, sysVars>>

(* ============================ Job Registry ============================ *)

TaskDone(t) == tasks[t].state = "done"

\* generation_tracker.is_running
is_running(course_id) ==
    LET task == active_tasks[course_id]
    IN  task # NoTask /\ ~TaskDone(task)

\* the check at the head of start_generation
StartRaises(course_id) ==
    active_tasks[course_id] # NoTask /\ ~TaskDone(active_tasks[course_id])

\* start_generation raising RuntimeError: nothing is spawned or registered
StartGenerationRaise(course_id) ==
    /\ StartRaises(course_id)
    /\ startResult' = [key |-> course_id, outcome |-> "AlreadyRunning", task |-> NoTask]
    /\ UNCHANGED <<active_tasks, tasks, callbacks, nextTask>>

\* start_generation spawning the task, registering it and its done callback
StartGenerationSpawn(course_id) ==
    /\ ~StartRaises(course_id)
    /\ nextTask <= MaxTasks
    /\ tasks' = [tasks EXCEPT ![nextTask] = [state |-> "running", key |-> course_id]]
    /\ active_tasks' = [active_tasks EXCEPT ![course_id] = nextTask]
    /\ startResult' = [key |-> course_id, outcome |-> "spawned", task |-> nextTask]
    /\ nextTask' = nextTask + 1
    /\ UNCHANGED callbacks

\* generation_tracker.start_generation
start_generation(course_id) ==
    \/ StartGenerationRaise(course_id)
    \/ StartGenerationSpawn(course_id)

\* the task's coroutine returns or raises: done() turns true and the event loop
\* schedules the done callback (call_soon), to run in a later loop iteration
TaskFinishes(t) ==
    /\ tasks[t].state = "running"
    /\ tasks' = [tasks EXCEPT ![t].state = "done"]
    /\ callbacks' = callbacks \cup {t}
    /\ UNCHANGED <<active_tasks, nextTask, startResult>>

\* generation_tracker.cleanup: _active_tasks.pop(course_id, None)
cleanup(course_id) ==
    active_tasks' = [active_tasks EXCEPT ![course_id] = NoTask]

\* the event loop runs the done callback: lambda _t: cleanup(course_id)
DoneCallback(t) ==
    /\ t \in callbacks
    /\ cleanup(tasks[t].key)
    /\ callbacks' = callbacks \ {t}
    /\ UNCHANGED <<tasks, nextTask, startResult>>

(* ============================== Event Bus ============================= *)

Message(event, index, skipped, count) ==
    [event |-> event, index |-> index, skipped |-> skipped, count |-> count]

RECURSIVE SeqToSet(_)
SeqToSet(s) == IF s = <<>> THEN {} ELSE {Head(s)} \cup SeqToSet(Tail(s))

RECURSIVE RemoveFirst(_, _)
\* list.remove(x): removes the first occurrence
RemoveFirst(s, x) ==
    IF s = <<>> THEN <<>>
    ELSE IF Head(s) = x THEN Tail(s)
    ELSE <<Head(s)>> \o RemoveFirst(Tail(s), x)

\* asyncio.Queue.full()
QueueFull(items) == QueueMaxsize > 0 /\ Len(items) >= QueueMaxsize

\* mutant of PutNowait: the queue holds one message and drops the rest
PutNowait_Maxsize1(items, message) ==
    IF Len(items) >= 1 THEN items ELSE Append(items, message)

\* queue.put_nowait(message), QueueFull caught: the message is dropped
PutNowait(items, message) ==
    IF QueueFull(items) THEN items ELSE Append(items, message)

\* _subscribers.get(course_id, [])
SubscribersGet(course_id) ==
    IF course_id \in DOMAIN subscribers THEN subscribers[course_id] ELSE <<>>

\* dict.pop(k, None)
DictPop(dct, k) == [x \in DOMAIN dct \ {k} |-> dct[x]]

\* mutant of BroadcastSubscribers: the list is fetched with setdefault
BroadcastSubscribers_Setdefault(course_id) ==
    (course_id :> SubscribersGet(course_id)) @@ subscribers

\* _subscribers after broadcast: get(course_id, []) inserts nothing
BroadcastSubscribers(course_id) == subscribers

\* mutant of Broadcast: the message goes to the queues of every key
Broadcast_AllKeys(qs, course_id, message) ==
    [q \in QueueIds |->
        IF \E k \in DOMAIN subscribers : q \in SeqToSet(subscribers[k])
        THEN PutNowait(qs[q], message)
        ELSE qs[q]]

\* generation_tracker.broadcast, as the new contents of every queue
Broadcast(qs, course_id, message) ==
    [q \in QueueIds |->
        IF q \in SeqToSet(SubscribersGet(course_id))
        THEN PutNowait(qs[q], message)
        ELSE qs[q]]

\* generation_tracker.subscribe, registering queue q (a fresh asyncio.Queue)
subscribe(course_id, q) ==
    /\ subscribers' = (course_id :> Append(SubscribersGet(course_id), q)) @@ subscribers
    /\ queue' = [queue EXCEPT ![q] = <<>>]

\* mutant of unsubscribe: the entry of the key is kept when its list is empty
unsubscribe_KeepKey(course_id, q) ==
    LET queues == SubscribersGet(course_id)
        left == IF q \in SeqToSet(queues) THEN RemoveFirst(queues, q) ELSE queues
    IN  subscribers' = (course_id :> left) @@ subscribers

\* generation_tracker.unsubscribe
unsubscribe(course_id, q) ==
    LET queues == SubscribersGet(course_id)
        left == IF q \in SeqToSet(queues) THEN RemoveFirst(queues, q) ELSE queues
    IN  subscribers' =
            IF left = <<>> THEN DictPop(subscribers, course_id)
            ELSE (course_id :> left) @@ subscribers

InitRegistry ==
    /\ active_tasks = [k \in Keys |-> NoTask]
    /\ tasks = [t \in TaskIds |-> [state |-> "unborn", key |-> CourseId]]
    /\ callbacks = {}
    /\ nextTask = 1
    /\ startResult = [key |-> CourseId, outcome |-> "none", task |-> NoTask]

InitBus ==
    /\ subscribers = [k \in {} |-> <<>>]
    /\ queue = [q \in QueueIds |-> <<>>]
    /\ held = {}

(* ====================== the course and its rows ======================= *)

ObjectiveIndexes == 0..(MaxObjectives - 1)
RequestIds == 1..MaxRequests
ClientIds == 1..MaxClients

\* one entry of existing_lessons: the row (0 when the index has none) and what
\* the session loaded of it
NoExisting == [row |-> 0, content |-> FALSE, acts |-> 0]

\* a request the client has not made yet; `endpoint` is the handler it is
\* sent to, `loaded` is the status of the course the handler has loaded,
\* `during` records the requests that were being handled when this one arrived
IdleRequest ==
    [pc |-> "idle", endpoint |-> Null, response |-> Null, loaded |-> Null, during |-> {}]

IdleJob ==
    [pc |-> "none", i |-> 0, lessons_created |-> 0, status |-> Null,
     existing |-> [x \in ObjectiveIndexes |-> NoExisting], row |-> 0, outcome |-> Null]

\* a stream the client has not opened yet; `all_lessons` records whether the
\* course the handler loaded had a Lesson with content and an Activity for
\* every objective, `quiet` whether no task was running and no start request
\* was being handled at that moment
IdleClient ==
    [pc |-> "idle", stream |-> Null, in_flight |-> FALSE, status |-> Null,
     lesson_count |-> 0, all_lessons |-> FALSE, quiet |-> FALSE, has_assessment |-> FALSE,
     catchup |-> <<>>, received |-> <<>>, early |-> FALSE]

InitSystemIdle ==
    /\ objectives = 0
    /\ db_status = "draft"
    /\ db_lessons = <<>>
    /\ db_assessments = 0
    /\ req = [r \in RequestIds |-> IdleRequest]
    /\ job = [t \in TaskIds |-> IdleJob]
    /\ published = [t \in TaskIds |-> <<>>]
    /\ calls = [t \in TaskIds |-> {}]
    /\ client = [c \in ClientIds |-> IdleClient]

(* ====================== Lifecycle State Machine ======================= *)

Statuses ==
    {"draft", "generating", "active", "in_progress", "awaiting_assessment",
     "assessment_ready", "completed", "generation_failed", "generating_assessment"}

\* a Lesson row: objective_index, lesson_content (TRUE when not null), status,
\* and the number of its Activity rows
LessonRow(idx, content, status, acts) ==
    [objective_index |-> idx, lesson_content |-> content, status |-> status,
     activities |-> acts]

LessonStatuses == {"locked", "unlocked", "completed"}

\* progression.TRANSITIONS
TRANSITIONS ==
    (<<"draft", "generating">> :> "has_objectives")
    @@ (<<"generating", "active">> :> "all_content_generated")
    @@ (<<"active", "in_progress">> :> "always")
    @@ (<<"in_progress", "awaiting_assessment">> :> "all_lessons_completed")
    @@ (<<"awaiting_assessment", "assessment_ready">> :> "assessment_generated")
    @@ (<<"assessment_ready", "completed">> :> "assessment_passed")
    @@ (<<"assessment_ready", "assessment_ready">> :> "always")

\* mutant of TransitionsGet: a missing pair falls back to the guard "always"
TransitionsGet_DefaultAlways(key) ==
    IF key \in DOMAIN TRANSITIONS THEN TRANSITIONS[key] ELSE "always"

\* TRANSITIONS.get(key)
TransitionsGet(key) == IF key \in DOMAIN TRANSITIONS THEN TRANSITIONS[key] ELSE Null

\* mutant of check_guard: all_content_generated accepts a course as soon as one
\* lesson has content
check_guard_AnyContent(course, guard) ==
    CASE guard = "always" -> TRUE
      [] guard = "has_objectives" -> course.input_objectives > 0
      [] guard = "all_content_generated" ->
            \E j \in 1..Len(course.lessons) : course.lessons[j].lesson_content
      [] guard = "all_lessons_completed" ->
            /\ Len(course.lessons) > 0
            /\ \A j \in 1..Len(course.lessons) : course.lessons[j].status = "completed"
      [] guard = "assessment_generated" -> Len(course.assessments) > 0
      [] guard = "assessment_passed" ->
            \E j \in 1..Len(course.assessments) : course.assessments[j] = "passed"
      [] OTHER -> FALSE

\* progression.check_guard
check_guard(course, guard) ==
    CASE guard = "always" -> TRUE
      [] guard = "has_objectives" -> course.input_objectives > 0
      [] guard = "all_content_generated" ->
            /\ Len(course.lessons) > 0
            /\ \A j \in 1..Len(course.lessons) : course.lessons[j].lesson_content
      [] guard = "all_lessons_completed" ->
            /\ Len(course.lessons) > 0
            /\ \A j \in 1..Len(course.lessons) : course.lessons[j].status = "completed"
      [] guard = "assessment_generated" -> Len(course.assessments) > 0
      [] guard = "assessment_passed" ->
            \E j \in 1..Len(course.assessments) : course.assessments[j] = "passed"
      [] OTHER -> FALSE

\* progression.transition_course: the course after the call and whether
\* InvalidTransitionError was raised (and by which check)
transition_course(course, target_status) ==
    LET key == <<course.status, target_status>>
        guard_name == TransitionsGet(key)
    IN  IF guard_name = Null
        THEN [raised |-> TRUE, why |-> "unlisted", course |-> course]
        ELSE IF ~check_guard(course, guard_name)
        THEN [raised |-> TRUE, why |-> guard_name, course |-> course]
        ELSE [raised |-> FALSE, why |-> Null,
              course |-> [course EXCEPT !.status = target_status]]

(* --------------- the state machine on courses of any shape ------------ *)

RECURSIVE SeqsUpTo(_, _)
\* the sequences over S of length at most n
SeqsUpTo(S, n) ==
    IF n = 0 THEN {<<>>}
    ELSE LET shorter == SeqsUpTo(S, n - 1)
         IN  shorter \cup {Append(q, x) : q \in shorter, x \in S}

\* Lesson rows of a course, ordered by objective_index
LessonLists ==
    {l \in SeqsUpTo({LessonRow(0, c, st, 0) : c \in BOOLEAN, st \in LessonStatuses},
                     MaxObjectives) : TRUE}

Reindex(l) == [j \in 1..Len(l) |-> [l[j] EXCEPT !.objective_index = j - 1]]

\* Assessment.passed of each Assessment row: null, true or false
AssessmentLists == SeqsUpTo({Null, "passed", "failed"}, MaxAssessments)

Courses ==
    [status : Statuses,
     input_objectives : 0..MaxObjectives,
     lessons : {Reindex(l) : l \in LessonLists},
     assessments : AssessmentLists]

NoResult == [called |-> FALSE, from |-> Null, to |-> Null, raised |-> FALSE, why |-> Null]

InitLifecycleIdle ==
    /\ lc_course = [status |-> "draft", input_objectives |-> 0, lessons |-> <<>>,
                    assessments |-> <<>>]
    /\ lc_result = NoResult

\* routers/courses.update_course_state: transition the loaded course; an
\* InvalidTransitionError is answered with 400 and nothing is persisted
update_course_state(target_state) ==
    LET r == transition_course(lc_course, target_state)
    IN  /\ lc_course' = r.course
        /\ lc_result' = [called |-> TRUE, from |-> lc_course.status, to |-> target_state,
                         raised |-> r.raised, why |-> r.why]
        /\ UNCHANGED <<regVars, busVars, sysVars>>

InitTransition ==
    /\ InitRegistry
    /\ InitBus
    /\ lc_course \in Courses
    /\ lc_result = NoResult
    /\ InitSystemIdle

NextTransition == \E target \in Statuses : update_course_state(target)

\* transition_course applied, any number of times, to a course of any shape
SpecTransition == InitTransition /\ [][NextTransition]_vars

(* ------------------- the registry and bus on their own ---------------- *)

RegStart(k) == start_generation(k) /\ UNCHANGED <<busVars, lcVars, sysVars>>

RegTaskFinishes(t) == TaskFinishes(t) /\ UNCHANGED <<busVars, lcVars, sysVars>>

RegDoneCallback(t) == DoneCallback(t) /\ UNCHANGED <<busVars, lcVars, sysVars>>

RegSubscribe(k, q) ==
    /\ q \notin held
    /\ subscribe(k, q)
    /\ held' = held \cup {q}
    /\ UNCHANGED <<regVars, lcVars, sysVars>>

RegUnsubscribe(k, q) ==
    /\ q \in held
    /\ unsubscribe(k, q)
    /\ UNCHANGED <<queue, held, regVars, lcVars, sysVars>>

\* the holder of an unregistered queue drops its reference
RegRelease(q) ==
    /\ q \in held
    /\ \A k \in Keys : q \notin SeqToSet(SubscribersGet(k))
    /\ held' = held \ {q}
    /\ queue' = [queue EXCEPT ![q] = <<>>]
    /\ UNCHANGED <<subscribers, regVars, lcVars, sysVars>>

RegMessages == {Message("lesson_planned", 0, FALSE, 0), Message("generation_complete", 0, FALSE, 1)}

RegBroadcast(k, m) ==
    /\ \A q \in SeqToSet(SubscribersGet(k)) : Len(queue[q]) < MaxQueueLen
    /\ queue' = Broadcast(queue, k, m)
    /\ subscribers' = BroadcastSubscribers(k)
    /\ UNCHANGED <<held, regVars, lcVars, sysVars>>

\* a subscriber takes the next message: queue.get()
RegQueueGet(q) ==
    /\ q \in held
    /\ queue[q] # <<>>
    /\ queue' = [queue EXCEPT ![q] = Tail(@)]
    /\ UNCHANGED <<subscribers, held, regVars, lcVars, sysVars>>

NextRegistry ==
    \/ \E k \in Keys : RegStart(k)
    \/ \E t \in TaskIds : RegTaskFinishes(t)
    \/ \E t \in TaskIds : RegDoneCallback(t)

InitRegistrySpec ==
    /\ InitRegistry
    /\ InitBus
    /\ InitLifecycleIdle
    /\ InitSystemIdle

\* the Job Registry under any interleaving of start calls, task completions and
\* deferred done callbacks
SpecRegistry == InitRegistrySpec /\ [][NextRegistry]_vars

NextBus ==
    \/ \E k \in Keys, q \in QueueIds : RegSubscribe(k, q)
    \/ \E k \in Keys, q \in QueueIds : RegUnsubscribe(k, q)
    \/ \E q \in QueueIds : RegRelease(q)
    \/ \E k \in Keys, m \in RegMessages : RegBroadcast(k, m)
    \/ \E q \in QueueIds : RegQueueGet(q)

InitBusSpec ==
    /\ InitRegistry
    /\ InitBus
    /\ InitLifecycleIdle
    /\ InitSystemIdle

\* the Event Bus under any interleaving of subscribe, unsubscribe, publish and get
SpecBus == InitBusSpec /\ [][NextBus]_vars

(* ================== trigger_generation (routers/courses) ============== *)

\* n Assessment rows that have not been reviewed (Assessment.passed is null)
AssessmentRows(n) == [j \in 1..n |-> Null]

\* the CourseInstance a session holds: its status and its loaded lessons
CourseView(status, lessons) ==
    [status |-> status, input_objectives |-> objectives, lessons |-> lessons,
     assessments |-> AssessmentRows(db_assessments)]

\* the requests whose handler has started and has not answered
InFlight == {q \in RequestIds : req[q].pc \notin {"idle", "done"}}

Respond(r, code) == req' = [req EXCEPT ![r].pc = "done", ![r].response = code]

\* lines 51-53: the is_running check that opens the handler
ReqCheck(r) ==
    /\ req[r].pc = "idle"
    /\ (IF r = 1 THEN TRUE ELSE req[r - 1].pc # "idle")
    /\ IF is_running(CourseId)
       THEN req' = [req EXCEPT ![r].pc = "done", ![r].response = "409",
                               ![r].endpoint = "generate", ![r].during = InFlight]
       ELSE req' = [req EXCEPT ![r].pc = "load", ![r].endpoint = "generate",
                               ![r].during = InFlight]
    /\ UNCHANGED <<regVars, busVars, lcVars, dbVars, job, published, calls, client>>

\* lines 55-87: load the course, check its status, transition_course to
\* 'generating' in the request's session (an InvalidTransitionError is not
\* caught by the handler: the request ends with a server error)
ReqLoad(r) ==
    /\ req[r].pc = "load" /\ req[r].endpoint = "generate"
    /\ LET course == CourseView(db_status, db_lessons)
       IN  IF course.status \notin {"draft", "generation_failed"}
           THEN req' = [req EXCEPT ![r].pc = "done", ![r].response = "400",
                                   ![r].loaded = course.status]
           ELSE IF transition_course(course, "generating").raised
           THEN req' = [req EXCEPT ![r].pc = "done", ![r].response = "500",
                                   ![r].loaded = course.status]
           ELSE req' = [req EXCEPT ![r].pc = "commit", ![r].loaded = course.status]
    /\ UNCHANGED <<regVars, busVars, lcVars, dbVars, job, published, calls, client>>

\* line 88: db.commit() makes the status 'generating' visible
ReqCommit(r) ==
    /\ req[r].pc = "commit" /\ req[r].endpoint = "generate"
    /\ db_status' = "generating"
    /\ req' = [req EXCEPT ![r].pc = "spawn"]
    /\ UNCHANGED <<regVars, busVars, lcVars, objectives, db_assessments, db_lessons, job, published,
                   calls, client>>

SpawnedJob == [IdleJob EXCEPT !.pc = "load"]

\* lines 91-102: start_generation; its RuntimeError is not caught here
ReqSpawn(r) ==
    /\ req[r].pc = "spawn" /\ req[r].endpoint = "generate"
    /\ \/ /\ StartGenerationRaise(CourseId)
          /\ Respond(r, "500")
          /\ UNCHANGED job
       \/ /\ StartGenerationSpawn(CourseId)
          /\ Respond(r, "accepted")
          /\ job' = [job EXCEPT ![nextTask] = SpawnedJob]
    /\ UNCHANGED <<busVars, lcVars, dbVars, published, calls, client>>

(* ============ generate_course_background (services/generation) ======== *)

RECURSIVE BroadcastSeq(_, _, _)
\* consecutive broadcast calls with no await between them
BroadcastSeq(qs, course_id, msgs) ==
    IF msgs = <<>> THEN qs
    ELSE BroadcastSeq(Broadcast(qs, course_id, Head(msgs)), course_id, Tail(msgs))

\* the task broadcasts msgs, in order
Emit(t, msgs) ==
    /\ queue' = BroadcastSeq(queue, CourseId, msgs)
    /\ subscribers' = BroadcastSubscribers(CourseId)
    /\ published' = [published EXCEPT ![t] = @ \o msgs]

\* mutant of Skippable: the Activity is not looked at
Skippable_ContentOnly(e) == e.row # 0 /\ e.content

\* line 120: existing and existing.lesson_content and existing.activities
Skippable(e) == e.row # 0 /\ e.content /\ e.acts > 0

RECURSIVE NextUnskipped(_, _, _)
\* the first objective index from i on that is not skipped (n when none is)
NextUnskipped(ex, i, n) ==
    IF i >= n THEN n
    ELSE IF Skippable(ex[i]) THEN NextUnskipped(ex, i + 1, n)
    ELSE i

RECURSIVE SkipMessages_WrittenFirst(_, _)
\* mutant of SkipMessages: lesson_written is announced before lesson_planned
SkipMessages_WrittenFirst(i, j) ==
    IF i >= j THEN <<>>
    ELSE <<Message("lesson_written", i, TRUE, 0), Message("lesson_planned", i, TRUE, 0),
           Message("activity_created", i, TRUE, 0)>> \o SkipMessages_WrittenFirst(i + 1, j)

RECURSIVE SkipMessages(_, _)
\* lines 124-138: the three events of each skipped objective from i to j - 1
SkipMessages(i, j) ==
    IF i >= j THEN <<>>
    ELSE <<Message("lesson_planned", i, TRUE, 0), Message("lesson_written", i, TRUE, 0),
           Message("activity_created", i, TRUE, 0)>> \o SkipMessages(i + 1, j)

\* the loop from objective index `from` up to its next await: the skipped
\* objectives are counted and announced, then the planner is awaited for the
\* first objective that is not skipped, or the loop ends
Advance(j0, from) ==
    LET nxt == NextUnskipped(j0.existing, from, objectives)
    IN  [job |-> [j0 EXCEPT !.i = nxt,
                            !.lessons_created = @ + (nxt - from),
                            !.row = 0,
                            !.pc = IF nxt < objectives THEN "plan" ELSE "finalize"],
         msgs |-> SkipMessages(from, nxt)]

\* lines 113-115: existing_lessons, a dict keyed by objective_index (of two rows
\* with the same index the one the query returns last wins)
ExistingChoices ==
    {[x \in ObjectiveIndexes |->
         IF f[x] = 0 THEN NoExisting
         ELSE [row |-> f[x], content |-> db_lessons[f[x]].lesson_content,
               acts |-> db_lessons[f[x]].activities]] :
     f \in {g \in [ObjectiveIndexes -> 0..Len(db_lessons)] :
              \A x \in ObjectiveIndexes :
                 IF \E j \in 1..Len(db_lessons) : db_lessons[j].objective_index = x
                 THEN g[x] # 0 /\ db_lessons[g[x]].objective_index = x
                 ELSE g[x] = 0}}

\* lines 91-139: the session loads the course and its lessons, then the loop
\* runs up to its first await
JobLoad(t) ==
    /\ job[t].pc = "load"
    /\ \E ex \in ExistingChoices :
          LET adv == Advance([job[t] EXCEPT !.status = db_status, !.existing = ex], 0)
          IN  /\ job' = [job EXCEPT ![t] = adv.job]
              /\ Emit(t, adv.msgs)
    /\ UNCHANGED <<regVars, held, lcVars, dbVars, req, calls, client>>

\* lines 97-104: the load raises (database unreachable, course gone)
JobLoadFails(t) ==
    /\ job[t].pc = "load"
    /\ job' = [job EXCEPT ![t].pc = "fatal"]
    /\ UNCHANGED <<regVars, busVars, lcVars, dbVars, req, published, calls, client>>

ErrorMessage(i) == Message("generation_error", i, FALSE, 0)

\* lines 141-148, 202-209: run_lesson_planner returns or raises
JobPlan(t, ok) ==
    LET j == job[t]
        e == j.existing[j.i]
        failed == Advance(j, j.i + 1)
        done == Advance([j EXCEPT !.lessons_created = @ + 1], j.i + 1)
    IN  /\ j.pc = "plan"
        /\ calls' = [calls EXCEPT ![t] = @ \cup {<<"plan", j.i, ok>>}]
        /\ IF ~ok
           THEN /\ job' = [job EXCEPT ![t] = failed.job]
                /\ Emit(t, <<ErrorMessage(j.i)>> \o failed.msgs)
           ELSE IF e.row # 0 /\ e.content
           THEN IF e.acts = 0
                THEN /\ job' = [job EXCEPT ![t].pc = "activity", ![t].row = e.row]
                     /\ Emit(t, <<Message("lesson_planned", j.i, FALSE, 0),
                                  Message("lesson_written", j.i, FALSE, 0)>>)
                ELSE /\ job' = [job EXCEPT ![t] = done.job]
                     /\ Emit(t, <<Message("lesson_planned", j.i, FALSE, 0),
                                  Message("lesson_written", j.i, FALSE, 0),
                                  Message("activity_created", j.i, FALSE, 0)>>
                                 \o done.msgs)
           ELSE /\ job' = [job EXCEPT ![t].pc = "write"]
                /\ Emit(t, <<Message("lesson_planned", j.i, FALSE, 0)>>)
        /\ UNCHANGED <<regVars, held, lcVars, dbVars, req, client>>

\* lines 150-177, 202-209: run_lesson_writer returns or raises; the Lesson is
\* filled or created, committed, and lesson_written is broadcast
JobWrite(t, ok) ==
    LET j == job[t]
        e == j.existing[j.i]
        failed == Advance(j, j.i + 1)
        done == Advance([j EXCEPT !.lessons_created = @ + 1], j.i + 1)
        row == IF e.row # 0 THEN e.row ELSE Len(db_lessons) + 1
    IN  /\ j.pc = "write"
        /\ calls' = [calls EXCEPT ![t] = @ \cup {<<"write", j.i, ok>>}]
        /\ IF ~ok
           THEN /\ job' = [job EXCEPT ![t] = failed.job]
                /\ Emit(t, <<ErrorMessage(j.i)>> \o failed.msgs)
                /\ UNCHANGED db_lessons
           ELSE /\ db_lessons' =
                      IF e.row # 0
                      THEN [db_lessons EXCEPT ![e.row].lesson_content = TRUE]
                      ELSE Append(db_lessons,
                                  LessonRow(j.i, TRUE,
                                            IF j.i = 0 THEN "unlocked" ELSE "locked", 0))
                /\ IF e.row = 0 \/ e.acts = 0
                   THEN /\ job' = [job EXCEPT ![t].pc = "activity", ![t].row = row]
                        /\ Emit(t, <<Message("lesson_written", j.i, FALSE, 0)>>)
                   ELSE /\ job' = [job EXCEPT ![t] = done.job]
                        /\ Emit(t, <<Message("lesson_written", j.i, FALSE, 0),
                                     Message("activity_created", j.i, FALSE, 0)>>
                                    \o done.msgs)
        /\ UNCHANGED <<regVars, held, lcVars, objectives, db_assessments, db_status, req,
                       client>>

\* lines 179-200, 202-209: run_activity_creator returns or raises; the Activity
\* is committed, activity_created is broadcast and the objective is counted
JobActivity(t, ok) ==
    LET j == job[t]
        failed == Advance(j, j.i + 1)
        done == Advance([j EXCEPT !.lessons_created = @ + 1], j.i + 1)
    IN  /\ j.pc = "activity"
        /\ calls' = [calls EXCEPT ![t] = @ \cup {<<"activity", j.i, ok>>}]
        /\ IF ~ok
           THEN /\ job' = [job EXCEPT ![t] = failed.job]
                /\ Emit(t, <<ErrorMessage(j.i)>> \o failed.msgs)
                /\ UNCHANGED db_lessons
           ELSE /\ db_lessons' = [db_lessons EXCEPT ![j.row].activities = @ + 1]
                /\ job' = [job EXCEPT ![t] = done.job]
                /\ Emit(t, <<Message("activity_created", j.i, FALSE, 0)>> \o done.msgs)
        /\ UNCHANGED <<regVars, held, lcVars, objectives, db_assessments, db_status, req,
                       client>>

\* mutant of FinalTransition: one failed objective fails the whole course
FinalTransition_AllOrNothing(course, lessons_created) ==
    IF lessons_created = course.input_objectives
    THEN LET first == transition_course(course, "active")
         IN  IF first.raised THEN first
             ELSE transition_course(first.course, "in_progress")
    ELSE transition_course(course, "generation_failed")

\* lines 215-221: the transitions that finalize the course status
FinalTransition(course, lessons_created) ==
    IF lessons_created > 0
    THEN LET first == transition_course(course, "active")
         IN  IF first.raised THEN first
             ELSE transition_course(first.course, "in_progress")
    ELSE transition_course(course, "generation_failed")

\* lines 212-221 and the exit of the session block: refresh the lessons, run
\* the transitions, commit; an InvalidTransitionError rolls the session back
\* and reaches the outer except
JobFinalize(t) ==
    LET j == job[t]
        res == FinalTransition(CourseView(j.status, db_lessons), j.lessons_created)
    IN  /\ j.pc = "finalize"
        /\ IF res.raised
           THEN /\ job' = [job EXCEPT ![t].pc = "fatal"]
                /\ UNCHANGED db_status
           ELSE /\ job' = [job EXCEPT ![t].pc = "complete",
                                      ![t].outcome = res.course.status]
                /\ db_status' = res.course.status
        /\ UNCHANGED <<regVars, busVars, lcVars, objectives, db_assessments, db_lessons, req, published,
                       calls, client>>

CompleteMessage(n) == Message("generation_complete", 0, FALSE, n)

\* lines 223-228: generation_complete is broadcast and the coroutine returns
JobComplete(t) ==
    /\ job[t].pc = "complete"
    /\ job' = [job EXCEPT ![t].pc = "done"]
    /\ Emit(t, <<CompleteMessage(job[t].lessons_created)>>)
    /\ TaskFinishes(t)
    /\ UNCHANGED <<held, lcVars, dbVars, req, calls, client>>

\* lines 232-244: the status the rollback attempt of the fatal handler commits
FatalRollback(status) ==
    IF status = "generating"
    THEN LET res == transition_course(CourseView(status, <<>>), "generation_failed")
         IN  IF res.raised THEN status ELSE res.course.status
    ELSE status

\* mutant of JobFatal: the outer except publishes generation_error only
JobFatal_ErrorOnly(t) ==
    /\ job[t].pc = "fatal"
    /\ db_status' = FatalRollback(db_status)
    /\ job' = [job EXCEPT ![t].pc = "done"]
    /\ Emit(t, <<ErrorMessage(-1)>>)
    /\ TaskFinishes(t)
    /\ UNCHANGED <<held, lcVars, objectives, db_assessments, db_lessons, req, calls, client>>

\* lines 230-253: the outer except: try to mark the course as failed, then
\* broadcast generation_error and generation_complete and return
JobFatal(t) ==
    /\ job[t].pc = "fatal"
    /\ db_status' = FatalRollback(db_status)
    /\ job' = [job EXCEPT ![t].pc = "done",
                          ![t].outcome = IF FatalRollback(db_status) # db_status
                                         THEN FatalRollback(db_status) ELSE @]
    /\ Emit(t, <<ErrorMessage(-1), CompleteMessage(job[t].lessons_created)>>)
    /\ TaskFinishes(t)
    /\ UNCHANGED <<held, lcVars, objectives, db_assessments, db_lessons, req, calls, client>>

\* mutant of JobDoneCallback: cleanup also drops the subscribers of the key
\* and empties their queues
JobDoneCallback_DropsSubscribers(t) ==
    /\ DoneCallback(t)
    /\ subscribers' = DictPop(subscribers, tasks[t].key)
    /\ queue' = [q \in QueueIds |->
                    IF q \in SeqToSet(SubscribersGet(tasks[t].key)) THEN <<>> ELSE queue[q]]
    /\ UNCHANGED <<held, lcVars, sysVars>>

\* the done callback of a generation task
JobDoneCallback(t) ==
    /\ DoneCallback(t)
    /\ UNCHANGED <<busVars, lcVars, sysVars>>

(* ================= generation_stream (routers/courses) ================ *)

RECURSIVE CatchupFrom(_, _)
\* lines 124-130: one lesson_written event per Lesson row, by objective_index
CatchupFrom(rows, x) ==
    IF x >= MaxObjectives THEN <<>>
    ELSE LET RECURSIVE Of(_)
             Of(j) == IF j > Len(rows) THEN <<>>
                      ELSE (IF rows[j].objective_index = x
                            THEN <<Message("lesson_written", x, FALSE, 0)>> ELSE <<>>)
                           \o Of(j + 1)
         IN  Of(1) \o CatchupFrom(rows, x + 1)

\* every objective of the course has, among rows, a Lesson with content and
\* an Activity
AllLessonsExist(rows) ==
    /\ objectives >= 1
    /\ \A x \in 0..(objectives - 1) :
          \E j \in 1..Len(rows) :
              /\ rows[j].objective_index = x
              /\ rows[j].lesson_content /\ rows[j].activities > 0

\* no task is running and no start request is being handled
Quiet == (\A t \in TaskIds : tasks[t].state # "running") /\ InFlight = {}

\* lines 112-130: the handler loads the course and its lessons, reads
\* is_running and builds the catch-up events
StreamConnect(c) ==
    /\ client[c].pc = "idle"
    /\ (IF c = 1 THEN TRUE ELSE client[c - 1].pc # "idle")
    /\ client' = [client EXCEPT ![c].pc = "connected",
                                ![c].stream = "generation",
                                ![c].in_flight = is_running(CourseId),
                                ![c].status = db_status,
                                ![c].lesson_count = Len(db_lessons),
                                ![c].all_lessons = AllLessonsExist(db_lessons),
                                ![c].quiet = Quiet,
                                ![c].catchup = CatchupFrom(db_lessons, 0)]
    /\ UNCHANGED <<regVars, busVars, lcVars, dbVars, req, job, published, calls>>

\* the generator has broadcast nothing yet when the client subscribes
NothingPublished == \A t \in TaskIds : published[t] = <<>>

\* lines 133-149: the generator sends the catch-up events, then either sends
\* generation_complete and returns, or subscribes
StreamBegin(c) ==
    /\ client[c].pc = "connected" /\ client[c].stream = "generation"
    /\ IF ~client[c].in_flight /\ client[c].status # "generating"
       THEN /\ client' = [client EXCEPT
                    ![c].pc = "closed",
                    ![c].received = client[c].catchup
                                    \o <<CompleteMessage(client[c].lesson_count)>>]
            /\ UNCHANGED busVars
       ELSE /\ client' = [client EXCEPT ![c].pc = "subscribed",
                                        ![c].catchup = <<>>,
                                        ![c].received = client[c].catchup,
                                        ![c].early = NothingPublished]
            /\ subscribe(CourseId, c)
            /\ UNCHANGED held
    /\ UNCHANGED <<regVars, lcVars, dbVars, req, job, published, calls>>

\* mutant of StreamExit: the generator ends without its finally clause
StreamExit_NoUnsubscribe(c) ==
    /\ queue' = [queue EXCEPT ![c] = <<>>]
    /\ UNCHANGED <<subscribers, held>>

\* mutant of StreamExit: leaving the stream drops every subscriber of the key
StreamExit_DropsKey(c) ==
    /\ subscribers' = DictPop(subscribers, CourseId)
    /\ queue' = [queue EXCEPT ![c] = <<>>]
    /\ UNCHANGED held

\* line 178: finally: unsubscribe; the queue object is dropped with the generator
StreamExit(c) ==
    /\ unsubscribe(CourseId, c)
    /\ queue' = [queue EXCEPT ![c] = <<>>]
    /\ UNCHANGED held

\* lines 153, 169-176: a message is taken from the queue and relayed; the
\* stream ends after generation_complete
StreamGet(c) ==
    /\ client[c].pc = "subscribed" /\ client[c].stream = "generation"
    /\ queue[c] # <<>>
    /\ LET message == Head(queue[c])
       IN  IF message.event = "generation_complete"
           THEN /\ client' = [client EXCEPT ![c].pc = "closed",
                                            ![c].received = Append(@, message)]
                /\ StreamExit(c)
           ELSE /\ client' = [client EXCEPT ![c].received = Append(@, message)]
                /\ queue' = [queue EXCEPT ![c] = Tail(@)]
                /\ UNCHANGED <<subscribers, held>>
    /\ UNCHANGED <<regVars, lcVars, dbVars, req, job, published, calls>>

\* the 60 s of wait_for cannot elapse while a request handler is between the
\* return of its commit and the next statement, start_generation
TimerCanExpire == \A r \in RequestIds : req[r].pc # "spawn"

\* mutant of StreamTimeout: a timeout only ever sends the keepalive comment
StreamTimeout_KeepaliveOnly(c) ==
    /\ client[c].pc = "subscribed" /\ client[c].stream = "generation"
    /\ queue[c] = <<>>
    /\ TimerCanExpire
    /\ UNCHANGED vars

\* lines 154-167: wait_for times out on an empty queue: generation_complete
\* with the lesson count read at connect time when no task is running, a
\* keepalive comment otherwise
StreamTimeout(c) ==
    /\ client[c].pc = "subscribed" /\ client[c].stream = "generation"
    /\ queue[c] = <<>>
    /\ TimerCanExpire
    /\ IF ~is_running(CourseId)
       THEN /\ client' = [client EXCEPT
                    ![c].pc = "closed",
                    ![c].received = Append(@, CompleteMessage(client[c].lesson_count))]
            /\ StreamExit(c)
       ELSE UNCHANGED <<client, busVars>>
    /\ UNCHANGED <<regVars, lcVars, dbVars, req, job, published, calls>>

\* the client goes away: the generator is closed and its finally clause runs
StreamDisconnect(c) ==
    /\ client[c].pc = "subscribed" /\ client[c].stream = "generation"
    /\ client' = [client EXCEPT ![c] = [IdleClient EXCEPT !.pc = "disconnected"]]
    /\ StreamExit(c)
    /\ UNCHANGED <<regVars, lcVars, dbVars, req, job, published, calls>>

(* ========================= the whole orchestrator ===================== *)

Init ==
    /\ InitRegistry
    /\ InitBus
    /\ InitLifecycleIdle
    /\ objectives \in 0..MaxObjectives
    /\ db_status = "draft"
    /\ db_lessons = <<>>
    /\ db_assessments = 0
    /\ req = [r \in RequestIds |-> IdleRequest]
    /\ job = [t \in TaskIds |-> IdleJob]
    /\ published = [t \in TaskIds |-> <<>>]
    /\ calls = [t \in TaskIds |-> {}]
    /\ client = [c \in ClientIds |-> IdleClient]

Next ==
    \/ \E r \in RequestIds : ReqCheck(r)
    \/ \E r \in RequestIds : ReqLoad(r)
    \/ \E r \in RequestIds : ReqCommit(r)
    \/ \E r \in RequestIds : ReqSpawn(r)
    \/ \E t \in TaskIds : JobLoad(t)
    \/ \E t \in TaskIds : JobLoadFails(t)
    \/ \E t \in TaskIds, ok \in BOOLEAN : JobPlan(t, ok)
    \/ \E t \in TaskIds, ok \in BOOLEAN : JobWrite(t, ok)
    \/ \E t \in TaskIds, ok \in BOOLEAN : JobActivity(t, ok)
    \/ \E t \in TaskIds : JobFinalize(t)
    \/ \E t \in TaskIds : JobComplete(t)
    \/ \E t \in TaskIds : JobFatal(t)
    \/ \E t \in TaskIds : JobDoneCallback(t)
    \/ \E c \in ClientIds : StreamConnect(c)
    \/ \E c \in ClientIds : StreamBegin(c)
    \/ \E c \in ClientIds : StreamGet(c)
    \/ \E c \in ClientIds : StreamTimeout(c)
    \/ \E c \in ClientIds : StreamDisconnect(c)

\* one course, its start requests, its generation tasks and its stream clients
Spec == Init /\ [][Next]_vars

(* ============== trigger_generation on a course of any status ========== *)

\* the course row is the input of the handler: any status, with or without
\* objectives; no task is registered
InitStart ==
    /\ InitRegistry
    /\ InitBus
    /\ InitLifecycleIdle
    /\ objectives \in 0..MaxObjectives
    /\ db_status \in Statuses
    /\ db_lessons = <<>>
    /\ db_assessments = 0
    /\ req = [r \in RequestIds |-> IdleRequest]
    /\ job = [t \in TaskIds |-> IdleJob]
    /\ published = [t \in TaskIds |-> <<>>]
    /\ calls = [t \in TaskIds |-> {}]
    /\ client = [c \in ClientIds |-> IdleClient]

NextStart ==
    \/ \E r \in RequestIds : ReqCheck(r)
    \/ \E r \in RequestIds : ReqLoad(r)
    \/ \E r \in RequestIds : ReqCommit(r)
    \/ \E r \in RequestIds : ReqSpawn(r)
    \/ \E t \in TaskIds : RegTaskFinishes(t)
    \/ \E t \in TaskIds : RegDoneCallback(t)

\* the start requests alone: the spawned coroutine is only seen to end
SpecStart == InitStart /\ [][NextStart]_vars

(* ============ generate_assessment (routers/assessments) =============== *)

\* line 121: key = _assessment_key(course_id)
AKey == _assessment_key(CourseId)

\* an event of the assessment pipeline; its payload is not modelled
AMessage(event) == Message(event, 0, FALSE, 0)

\* lines 124-125: the is_running check that opens the handler
AReqCheck(r) ==
    /\ req[r].pc = "idle"
    /\ (IF r = 1 THEN TRUE ELSE req[r - 1].pc # "idle")
    /\ IF is_running(AKey)
       THEN req' = [req EXCEPT ![r].pc = "done", ![r].response = "409",
                               ![r].endpoint = "assessment", ![r].during = InFlight]
       ELSE req' = [req EXCEPT ![r].pc = "load", ![r].endpoint = "assessment",
                               ![r].during = InFlight]
    /\ UNCHANGED <<regVars, busVars, lcVars, dbVars, job, published, calls, client>>

\* lines 127-175: load the course, check its status, transition_course to
\* 'generating_assessment' in the request's session (an InvalidTransitionError
\* is not caught by the handler: the request ends with a server error)
AReqLoad(r) ==
    /\ req[r].pc = "load" /\ req[r].endpoint = "assessment"
    /\ LET course == CourseView(db_status, db_lessons)
       IN  IF course.status \notin {"awaiting_assessment", "assessment_ready"}
           THEN req' = [req EXCEPT ![r].pc = "done", ![r].response = "400",
                                   ![r].loaded = course.status]
           ELSE IF transition_course(course, "generating_assessment").raised
           THEN req' = [req EXCEPT ![r].pc = "done", ![r].response = "500",
                                   ![r].loaded = course.status]
           ELSE req' = [req EXCEPT ![r].pc = "commit", ![r].loaded = course.status]
    /\ UNCHANGED <<regVars, busVars, lcVars, dbVars, job, published, calls, client>>

\* line 176: db.commit() makes the status 'generating_assessment' visible
AReqCommit(r) ==
    /\ req[r].pc = "commit" /\ req[r].endpoint = "assessment"
    /\ db_status' = "generating_assessment"
    /\ req' = [req EXCEPT ![r].pc = "spawn"]
    /\ UNCHANGED <<regVars, busVars, lcVars, objectives, db_assessments, db_lessons, job,
                   published, calls, client>>

SpawnedAssessmentJob == [IdleJob EXCEPT !.pc = "aload"]

\* lines 179-194: start_generation under the assessment key; its RuntimeError
\* is answered with 409
AReqSpawn(r) ==
    /\ req[r].pc = "spawn" /\ req[r].endpoint = "assessment"
    /\ \/ /\ StartGenerationRaise(AKey)
          /\ Respond(r, "409")
          /\ UNCHANGED job
       \/ /\ StartGenerationSpawn(AKey)
          /\ Respond(r, "accepted")
          /\ job' = [job EXCEPT ![nextTask] = SpawnedAssessmentJob]
    /\ UNCHANGED <<busVars, lcVars, dbVars, published, calls, client>>

(* ======== generate_assessment_background (routers/assessments) ======== *)

\* the task broadcasts msgs under the assessment key, in order
AEmit(t, msgs) ==
    /\ queue' = BroadcastSeq(queue, AKey, msgs)
    /\ subscribers' = BroadcastSubscribers(AKey)
    /\ published' = [published EXCEPT ![t] = @ \o msgs]

\* lines 48-61: the session loads the course; generating_assessment is broadcast
AJobLoad(t) ==
    /\ job[t].pc = "aload"
    /\ job' = [job EXCEPT ![t].pc = "create", ![t].status = db_status]
    /\ AEmit(t, <<AMessage("generating_assessment")>>)
    /\ UNCHANGED <<regVars, held, lcVars, dbVars, req, calls, client>>

\* lines 49-57: the load raises
AJobLoadFails(t) ==
    /\ job[t].pc = "aload"
    /\ job' = [job EXCEPT ![t].pc = "afailed"]
    /\ UNCHANGED <<regVars, busVars, lcVars, dbVars, req, published, calls, client>>

\* lines 63-78: run_assessment_creator returns or raises; the Assessment row
\* is added and committed
AJobCreate(t, ok) ==
    /\ job[t].pc = "create"
    /\ calls' = [calls EXCEPT ![t] = @ \cup {<<"create", 0, ok>>}]
    /\ IF ok
       THEN /\ db_assessments' = db_assessments + 1
            /\ job' = [job EXCEPT ![t].pc = "transition"]
       ELSE /\ job' = [job EXCEPT ![t].pc = "afailed"]
            /\ UNCHANGED db_assessments
    /\ UNCHANGED <<regVars, busVars, lcVars, objectives, db_status, db_lessons, req,
                   published, client>>

\* lines 81-87 and the exit of the session block: refresh the assessments,
\* transition_course to 'assessment_ready' from the status the session loaded
\* and commit; an InvalidTransitionError is passed over
AJobTransition(t) ==
    /\ job[t].pc = "transition"
    /\ LET r == transition_course(CourseView(job[t].status, db_lessons), "assessment_ready")
       IN  IF r.raised
           THEN /\ job' = [job EXCEPT ![t].pc = "acomplete"]
                /\ UNCHANGED db_status
           ELSE /\ job' = [job EXCEPT ![t].pc = "acomplete",
                                      ![t].outcome = r.course.status]
                /\ db_status' = r.course.status
    /\ UNCHANGED <<regVars, busVars, lcVars, objectives, db_assessments, db_lessons, req,
                   published, calls, client>>

\* lines 90-92: assessment_complete is broadcast and the coroutine returns
AJobComplete(t) ==
    /\ job[t].pc = "acomplete"
    /\ job' = [job EXCEPT ![t].pc = "done"]
    /\ AEmit(t, <<AMessage("assessment_complete")>>)
    /\ TaskFinishes(t)
    /\ UNCHANGED <<held, lcVars, dbVars, req, calls, client>>

\* lines 97-108: the status the rollback attempt of the except clause commits
ARollback(status) ==
    IF status = "generating_assessment"
    THEN LET r == transition_course(CourseView(status, db_lessons), "awaiting_assessment")
         IN  IF r.raised THEN status ELSE r.course.status
    ELSE status

\* lines 94-112: the except clause: try to roll the status back, broadcast
\* assessment_error and return
AJobFailed(t) ==
    /\ job[t].pc = "afailed"
    /\ db_status' = ARollback(db_status)
    /\ job' = [job EXCEPT ![t].pc = "done", ![t].outcome = "failed"]
    /\ AEmit(t, <<AMessage("assessment_error")>>)
    /\ TaskFinishes(t)
    /\ UNCHANGED <<held, lcVars, objectives, db_assessments, db_lessons, req, calls, client>>

(* ============== assessment_stream (routers/assessments) =============== *)

\* lines 250-262: the handler loads the course and its assessments and reads
\* is_running
AStreamConnect(c) ==
    /\ client[c].pc = "idle"
    /\ (IF c = 1 THEN TRUE ELSE client[c - 1].pc # "idle")
    /\ client' = [client EXCEPT ![c].pc = "connected",
                                ![c].stream = "assessment",
                                ![c].in_flight = is_running(AKey),
                                ![c].status = db_status,
                                ![c].has_assessment = db_assessments > 0]
    /\ UNCHANGED <<regVars, busVars, lcVars, dbVars, req, job, published, calls>>

\* lines 265-288: the generator sends assessment_complete when the course had
\* an Assessment, assessment_error when nothing is in progress, or subscribes
AStreamBegin(c) ==
    /\ client[c].pc = "connected" /\ client[c].stream = "assessment"
    /\ IF client[c].has_assessment
       THEN /\ client' = [client EXCEPT
                    ![c].pc = "closed",
                    ![c].received = <<AMessage("assessment_complete")>>]
            /\ UNCHANGED busVars
       ELSE IF ~client[c].in_flight /\ client[c].status # "generating_assessment"
       THEN /\ client' = [client EXCEPT
                    ![c].pc = "closed",
                    ![c].received = <<AMessage("assessment_error")>>]
            /\ UNCHANGED busVars
       ELSE /\ client' = [client EXCEPT ![c].pc = "subscribed",
                                        ![c].early = NothingPublished]
            /\ subscribe(AKey, c)
            /\ UNCHANGED held
    /\ UNCHANGED <<regVars, lcVars, dbVars, req, job, published, calls>>

\* line 326: finally: unsubscribe; the queue object is dropped with the generator
AStreamExit(c) ==
    /\ unsubscribe(AKey, c)
    /\ queue' = [queue EXCEPT ![c] = <<>>]
    /\ UNCHANGED held

\* lines 292, 318-324: a message is taken from the queue and relayed; the
\* stream ends after assessment_complete or assessment_error
AStreamGet(c) ==
    /\ client[c].pc = "subscribed" /\ client[c].stream = "assessment"
    /\ queue[c] # <<>>
    /\ LET message == Head(queue[c])
       IN  IF message.event \in {"assessment_complete", "assessment_error"}
           THEN /\ client' = [client EXCEPT ![c].pc = "closed",
                                            ![c].received = Append(@, message)]
                /\ AStreamExit(c)
           ELSE /\ client' = [client EXCEPT ![c].received = Append(@, message)]
                /\ queue' = [queue EXCEPT ![c] = Tail(@)]
                /\ UNCHANGED <<subscribers, held>>
    /\ UNCHANGED <<regVars, lcVars, dbVars, req, job, published, calls>>

\* lines 293-316: wait_for times out on an empty queue: when no task is
\* running the latest Assessment is looked up and assessment_complete or
\* assessment_error ends the stream; a keepalive comment otherwise
AStreamTimeout(c) ==
    /\ client[c].pc = "subscribed" /\ client[c].stream = "assessment"
    /\ queue[c] = <<>>
    /\ TimerCanExpire
    /\ IF ~is_running(AKey)
       THEN /\ client' = [client EXCEPT
                    ![c].pc = "closed",
                    ![c].received = Append(@, IF db_assessments > 0
                                              THEN AMessage("assessment_complete")
                                              ELSE AMessage("assessment_error"))]
            /\ AStreamExit(c)
       ELSE UNCHANGED <<client, busVars>>
    /\ UNCHANGED <<regVars, lcVars, dbVars, req, job, published, calls>>

\* the client goes away: the generator is closed and its finally clause runs
AStreamDisconnect(c) ==
    /\ client[c].pc = "subscribed" /\ client[c].stream = "assessment"
    /\ client' = [client EXCEPT ![c] = [IdleClient EXCEPT !.pc = "disconnected"]]
    /\ AStreamExit(c)
    /\ UNCHANGED <<regVars, lcVars, dbVars, req, job, published, calls>>

(* ===================== the assessment orchestrator ==================== *)

\* the statuses generate_assessment admits (line 139) and the one it commits
\* (line 175)
AssessmentStatuses == {"awaiting_assessment", "assessment_ready", "generating_assessment"}

\* a course whose lessons are completed, with or without an Assessment; the
\* pipeline is either not started, or task 1 runs it under the assessment key
\* as lines 180-190 start it
InitAssessment ==
    /\ InitBus
    /\ InitLifecycleIdle
    /\ objectives = 1
    /\ db_lessons = <<LessonRow(0, TRUE, "completed", 1)>>
    /\ db_status \in AssessmentStatuses
    /\ db_assessments \in 0..MaxAssessments
    /\ db_status = "assessment_ready" => db_assessments > 0
    /\ \E started \in BOOLEAN :
        /\ active_tasks = [k \in Keys |-> IF started /\ k = AKey THEN 1 ELSE NoTask]
        /\ tasks = [t \in TaskIds |->
                      [state |-> IF started /\ t = 1 THEN "running" ELSE "unborn",
                       key |-> AKey]]
        /\ nextTask = IF started THEN 2 ELSE 1
        /\ job = [t \in TaskIds |->
                      IF started /\ t = 1 THEN SpawnedAssessmentJob ELSE IdleJob]
    /\ callbacks = {}
    /\ startResult = [key |-> AKey, outcome |-> "none", task |-> NoTask]
    /\ req = [r \in RequestIds |-> IdleRequest]
    /\ published = [t \in TaskIds |-> <<>>]
    /\ calls = [t \in TaskIds |-> {}]
    /\ client = [c \in ClientIds |-> IdleClient]

\* AReqCommit and AReqSpawn are left out: AReqLoad never reaches them
\* (AssessmentStartNeverCommits)
NextAssessment ==
    \/ \E r \in RequestIds : AReqCheck(r)
    \/ \E r \in RequestIds : AReqLoad(r)
    \/ \E t \in TaskIds : AJobLoad(t)
    \/ \E t \in TaskIds : AJobLoadFails(t)
    \/ \E t \in TaskIds, ok \in BOOLEAN : AJobCreate(t, ok)
    \/ \E t \in TaskIds : AJobTransition(t)
    \/ \E t \in TaskIds : AJobComplete(t)
    \/ \E t \in TaskIds : AJobFailed(t)
    \/ \E t \in TaskIds : JobDoneCallback(t)
    \/ \E c \in ClientIds : AStreamConnect(c)
    \/ \E c \in ClientIds : AStreamBegin(c)
    \/ \E c \in ClientIds : AStreamGet(c)
    \/ \E c \in ClientIds : AStreamTimeout(c)
    \/ \E c \in ClientIds : AStreamDisconnect(c)

\* one course, its assessment requests, its assessment task and its stream clients
SpecAssessment == InitAssessment /\ [][NextAssessment]_vars

\* with AReqCommit and AReqSpawn added, the behaviours are the same: no
\* request is ever at 'commit' or 'spawn'
AssessmentStartNeverCommits ==
    /\ \A r \in RequestIds : req[r].pc \notin {"commit", "spawn"}
    /\ \A r \in RequestIds : ~ENABLED AReqCommit(r) /\ ~ENABLED AReqSpawn(r)

(* ============ both streams of a course, with the event loop =========== *)

\* a course at one of its two stages: a draft with one objective, or a course
\* whose lessons are completed
InitStreams ==
    \/ Init /\ objectives = 1
    \/ InitAssessment

\* every endpoint is open at either stage
NextStreams == Next \/ NextAssessment

\* the event loop runs every coroutine that is ready, the database and the
\* external agents answer, and a timer that is due fires; whether a client
\* sends a request, connects or disconnects is up to the client
FairStreams ==
    /\ \A r \in RequestIds :
        /\ WF_vars(ReqLoad(r)) /\ WF_vars(ReqCommit(r)) /\ WF_vars(ReqSpawn(r))
        /\ WF_vars(AReqLoad(r))
    /\ \A t \in TaskIds :
        /\ WF_vars(JobLoad(t) \/ JobLoadFails(t))
        /\ WF_vars(\E ok \in BOOLEAN : JobPlan(t, ok))
        /\ WF_vars(\E ok \in BOOLEAN : JobWrite(t, ok))
        /\ WF_vars(\E ok \in BOOLEAN : JobActivity(t, ok))
        /\ WF_vars(JobFinalize(t)) /\ WF_vars(JobComplete(t)) /\ WF_vars(JobFatal(t))
        /\ WF_vars(JobDoneCallback(t))
        /\ WF_vars(AJobLoad(t) \/ AJobLoadFails(t))
        /\ WF_vars(\E ok \in BOOLEAN : AJobCreate(t, ok))
        /\ WF_vars(AJobTransition(t)) /\ WF_vars(AJobComplete(t)) /\ WF_vars(AJobFailed(t))
    /\ \A c \in ClientIds :
        /\ WF_vars(StreamBegin(c)) /\ WF_vars(StreamGet(c)) /\ WF_vars(StreamTimeout(c))
        /\ WF_vars(AStreamBegin(c)) /\ WF_vars(AStreamGet(c)) /\ WF_vars(AStreamTimeout(c))

SpecStreams == InitStreams /\ [][NextStreams]_vars /\ FairStreams

(* ================ one generation run and its watchers ================= *)

Watchers == 1..MaxWatchers

\* the start request of the run
FirstRequest == 1

\* a draft course with objectives, and the stream connections of its watchers
InitFanout ==
    /\ InitRegistry
    /\ InitBus
    /\ InitLifecycleIdle
    /\ objectives \in 1..MaxObjectives
    /\ db_status = "draft"
    /\ db_lessons = <<>>
    /\ db_assessments = 0
    /\ req = [r \in RequestIds |-> IdleRequest]
    /\ job = [t \in TaskIds |-> IdleJob]
    /\ published = [t \in TaskIds |-> <<>>]
    /\ calls = [t \in TaskIds |-> {}]
    /\ client = [c \in Watchers |-> IdleClient]

NextFanout ==
    \/ ReqCheck(FirstRequest)
    \/ ReqLoad(FirstRequest)
    \/ ReqCommit(FirstRequest)
    \/ ReqSpawn(FirstRequest)
    \/ \E t \in TaskIds : JobLoad(t)
    \/ \E t \in TaskIds : JobLoadFails(t)
    \/ \E t \in TaskIds, ok \in BOOLEAN : JobPlan(t, ok)
    \/ \E t \in TaskIds, ok \in BOOLEAN : JobWrite(t, ok)
    \/ \E t \in TaskIds, ok \in BOOLEAN : JobActivity(t, ok)
    \/ \E t \in TaskIds : JobFinalize(t)
    \/ \E t \in TaskIds : JobComplete(t)
    \/ \E t \in TaskIds : JobFatal(t)
    \/ \E t \in TaskIds : JobDoneCallback(t)
    \/ \E c \in Watchers : StreamConnect(c)
    \/ \E c \in Watchers : StreamBegin(c)
    \/ \E c \in Watchers : StreamGet(c)
    \/ \E c \in Watchers : StreamTimeout(c)
    \/ \E c \in Watchers : StreamDisconnect(c)

\* one start request, the run it spawns, and several stream clients
SpecFanout == InitFanout /\ [][NextFanout]_vars

(* ===================== claims about the Job Registry ================== *)

\* a unit of work started under key k has not yet finished
Unfinished(k) == \E t \in TaskIds : tasks[t].key = k /\ tasks[t].state = "running"

\* a start_generation call for key k is made in this step
StartCalled(k) == startResult' # startResult /\ startResult'.key = k

\* every job started for k has finished and its done callback has run
AllCleanedUp(k) ==
    /\ \E t \in TaskIds : tasks[t].key = k /\ tasks[t].state = "done"
    /\ \A t \in TaskIds : tasks[t].key = k => tasks[t].state # "running" /\ t \notin callbacks

\* C1: start(key, job) while a job started earlier for that key has not
\* finished fails with AlreadyRunning and spawns nothing; once the job has
\* finished and its completion callback has run, is_running(key) is false and
\* a further start is accepted.
C1_StartWhileUnfinishedRejected ==
    /\ [][\A k \in Keys :
            (StartCalled(k) /\ Unfinished(k))
                => /\ startResult'.outcome = "AlreadyRunning"
                   /\ UNCHANGED <<tasks, active_tasks, nextTask>>]_vars
    /\ [](\A k \in Keys : AllCleanedUp(k) => ~is_running(k) /\ ~StartRaises(k))

\* C2: at most one unit of work per resource key is executing at any time.
C2_OneRunningPerKey ==
    \A k \in Keys :
        Cardinality({t \in TaskIds : tasks[t].key = k /\ tasks[t].state = "running"}) <= 1

\* C3: is_running(key) is true exactly when a unit of work started under key
\* has not yet finished.
C3_IsRunningIffUnfinished ==
    \A k \in Keys : is_running(k) <=> Unfinished(k)

(* ================ claims about the Lifecycle State Machine ============ *)

AllContentGenerated(course) ==
    /\ Len(course.lessons) > 0
    /\ \A j \in 1..Len(course.lessons) : course.lessons[j].lesson_content

\* C4: for every pair (from, to) that is not in the transition table,
\* transition_course raises InvalidTransitionError whatever the lessons and
\* assessments of the course, and leaves the status at from.
C4_UnlistedPairRejected ==
    (lc_result.called /\ <<lc_result.from, lc_result.to>> \notin DOMAIN TRANSITIONS)
        => (lc_result.raised /\ lc_course.status = lc_result.from)

\* an unlisted pair was tried on a course with lessons and a passed assessment
C4_Witness ==
    /\ lc_result.called
    /\ lc_result.from = "draft" /\ lc_result.to = "completed"
    /\ Len(lc_course.lessons) = MaxObjectives
    /\ \E j \in 1..Len(lc_course.assessments) : lc_course.assessments[j] = "passed"
    /\ lc_result.raised

\* C5: from 'generating', the transition to 'active' succeeds exactly when at
\* least one Lesson exists and every Lesson has non-null content; when it
\* fails it raises InvalidTransitionError and the status is unchanged.
C5_GeneratingToActive ==
    (lc_result.called /\ lc_result.from = "generating" /\ lc_result.to = "active")
        => /\ ~lc_result.raised <=> AllContentGenerated(lc_course)
           /\ lc_result.raised => lc_course.status = "generating"
           /\ ~lc_result.raised => lc_course.status = "active"

\* the transition was refused for a course whose first lesson has content and
\* whose second has none
C5_Witness ==
    /\ lc_result.called /\ lc_result.from = "generating" /\ lc_result.to = "active"
    /\ Len(lc_course.lessons) = 2
    /\ lc_course.lessons[1].lesson_content /\ ~lc_course.lessons[2].lesson_content
    /\ lc_result.raised /\ lc_course.status = "generating"

\* C6: the side exit generating -> generation_failed and the retry edge
\* generation_failed -> generating are listed pairs: transition_course does not
\* reject them as unlisted, and they succeed when the course has objectives.
C6_SideExitAndRetryAccepted ==
    (/\ lc_result.called
     /\ <<lc_result.from, lc_result.to>> \in
            {<<"generating", "generation_failed">>, <<"generation_failed", "generating">>}
     /\ lc_course.input_objectives > 0)
        => ~lc_result.raised

(* ================= claims about the generation pipeline =============== *)

Agents == {"plan", "write", "activity"}
ProgressEvents == {"lesson_planned", "lesson_written", "activity_created"}

Last(sq) == sq[Len(sq)]

\* the objective indexes of the course
Indexes == 0..(objectives - 1)

\* the indexes for which an external call of task t failed
FailedIdx(t) == {i \in Indexes : \E a \in Agents : <<a, i, FALSE>> \in calls[t]}

\* the external calls task t made for index i
CalledAgents(t, i) == {a \in Agents : \E ok \in BOOLEAN : <<a, i, ok>> \in calls[t]}

\* the progress events task t published for index i, in order
EventsFor(t, i) ==
    SelectSeq(published[t], LAMBDA m : m.index = i /\ m.event \in ProgressEvents)

\* task t has published something about index i, or called an agent for it
Attempted(t, i) ==
    \/ CalledAgents(t, i) # {}
    \/ \E k \in 1..Len(published[t]) : published[t][k].index = i

\* task t ran to its end on a course it loaded in status 'generating'
RunOver(t) == job[t].pc = "done" /\ job[t].status = "generating"

\* the start request that spawned task 1 is the only one made so far
SoleRequest == \A r \in RequestIds \ {1} : req[r].pc = "idle"

RealTrio(i) ==
    <<Message("lesson_planned", i, FALSE, 0), Message("lesson_written", i, FALSE, 0),
      Message("activity_created", i, FALSE, 0)>>

\* C7: if every objective of a generation run fails, the run leaves the course
\* in 'generation_failed' and its last event is generation_complete with
\* lesson_count 0.
C7_AllFailedEndsGenerationFailed ==
    \A t \in TaskIds :
        (RunOver(t) /\ objectives >= 1 /\ FailedIdx(t) = Indexes)
            => /\ job[t].outcome = "generation_failed"
               /\ db_status = "generation_failed"
               /\ Last(published[t]) = CompleteMessage(0)

\* C8: in a generation run (of a course loaded in 'generating') where the
\* external calls fail for some but not all objectives, every objective is
\* still attempted, the last event is generation_complete with lesson_count
\* equal to the number of objectives that did not fail, and the run commits
\* the status 'in_progress', which is the status of the course when no other
\* start request was made.
C8_PartialFailureContinues ==
    \A t \in TaskIds :
        (RunOver(t) /\ FailedIdx(t) # {} /\ FailedIdx(t) # Indexes)
            => /\ \A i \in Indexes : Attempted(t, i)
               /\ Last(published[t]) =
                      CompleteMessage(objectives - Cardinality(FailedIdx(t)))
               /\ job[t].outcome = "in_progress"
               /\ SoleRequest => db_status = "in_progress"

\* the writer failed for objective 0 and objective 1 was generated afterwards
C8_Witness ==
    \E t \in TaskIds :
        /\ RunOver(t) /\ objectives = 2
        /\ <<"write", 0, FALSE>> \in calls[t]
        /\ <<"activity", 1, TRUE>> \in calls[t]
        /\ job[t].outcome = "in_progress"
        /\ SoleRequest /\ db_status = "in_progress"

\* the calls an index still needs, given what the run loaded for it
MissingCalls(e) ==
    {"plan"} \cup (IF e.row # 0 /\ e.content THEN {} ELSE {"write"})
             \cup (IF e.row # 0 /\ e.acts > 0 THEN {} ELSE {"activity"})

\* C9: in a run of the pipeline, every objective index that was loaded with a
\* Lesson that has content and an Activity gets its three events marked
\* skipped, is counted as a success and causes no external call; every other
\* index gets only events that are not marked skipped and only the calls it
\* still misses, and all of them, with the three real events, when none fails.
C9_RerunSkipsCompleted ==
    \A t \in TaskIds :
        (job[t].pc = "done" /\ job[t].status # Null)
            => /\ \A i \in Indexes :
                    LET e == job[t].existing[i]
                    IN  IF e.row # 0 /\ e.content /\ e.acts > 0
                        THEN /\ EventsFor(t, i) = SkipMessages(i, i + 1)
                             /\ CalledAgents(t, i) = {}
                        ELSE /\ \A k \in 1..Len(EventsFor(t, i)) :
                                    ~EventsFor(t, i)[k].skipped
                             /\ CalledAgents(t, i) \subseteq MissingCalls(e)
                             /\ i \notin FailedIdx(t)
                                    => /\ CalledAgents(t, i) = MissingCalls(e)
                                       /\ EventsFor(t, i) = RealTrio(i)
               /\ job[t].lessons_created = Cardinality(Indexes \ FailedIdx(t))

\* a re-run found objective 0 complete and objective 1 without a Lesson: it
\* skipped 0 and made the three calls for 1
C9_Witness ==
    \E t \in TaskIds :
        /\ job[t].pc = "done" /\ objectives = 2
        /\ Skippable(job[t].existing[0])
        /\ job[t].existing[1].row = 0
        /\ EventsFor(t, 0) = SkipMessages(0, 1)
        /\ CalledAgents(t, 0) = {}
        /\ calls[t] = {<<"plan", 1, TRUE>>, <<"write", 1, TRUE>>, <<"activity", 1, TRUE>>}
        /\ EventsFor(t, 1) = RealTrio(1)

RECURSIVE ExpectedStream(_, _)
\* the trio of every index from i to n - 1, then generation_complete
ExpectedStream(i, n) ==
    IF i >= n THEN <<CompleteMessage(n)>>
    ELSE RealTrio(i) \o ExpectedStream(i + 1, n)

\* the first task ran to its end with every external call succeeding
FirstRunClean ==
    /\ job[1].pc = "done"
    /\ \A call \in calls[1] : call[3]
    /\ \A k \in 1..Len(published[1]) : published[1][k].event # "generation_error"

AllFailedReportsZero ==
    \A t \in TaskIds :
        (RunOver(t) /\ objectives >= 1 /\ FailedIdx(t) = Indexes)
            => Last(published[t]) = CompleteMessage(0)

(* ====================== claims about the Event Bus ==================== *)

\* C19: broadcast(key, message) appends the message once to the queue of
\* every subscriber registered for key at that moment, behind what the queue
\* already holds, and changes no other queue (none of another key).
C19_PublishReachesSubscribersOfKey ==
    [][\A k \in Keys, m \in RegMessages :
          RegBroadcast(k, m) =>
              \A q \in QueueIds :
                  queue'[q] = IF q \in SeqToSet(SubscribersGet(k))
                              THEN Append(queue[q], m)
                              ELSE queue[q]]_vars

\* two queues are subscribed to one key and both hold the two messages, in
\* the order of their publication
C19_Witness ==
    \E k \in DOMAIN subscribers :
        /\ Len(subscribers[k]) = 2
        /\ \A q \in SeqToSet(subscribers[k]) :
              queue[q] = <<Message("lesson_planned", 0, FALSE, 0),
                           Message("generation_complete", 0, FALSE, 1)>>

\* C20: a broadcast to a key without subscribers changes neither
\* _subscribers (no entry appears for the key), nor any queue, nor
\* _active_tasks.
C20_PublishWithoutSubscribersIsNoOp ==
    [][\A t \in TaskIds :
          (published'[t] # published[t] /\ CourseId \notin DOMAIN subscribers)
              => /\ subscribers' = subscribers
                 /\ CourseId \notin DOMAIN subscribers'
                 /\ queue' = queue
                 /\ active_tasks' = active_tasks]_vars

\* a task has published events although no stream client ever subscribed
C20_Witness ==
    /\ \E t \in TaskIds : Len(published[t]) >= 2
    /\ \A c \in ClientIds : client[c].pc = "idle"
    /\ DOMAIN subscribers = {}
    /\ \A q \in QueueIds : queue[q] = <<>>

\* C25: a subscriber queue has a capacity (a positive maxsize) that its
\* length never exceeds: a broadcast to a queue that holds that many messages
\* drops the message for that queue, and appends it to the other queues of
\* the key.
C25_QueueBoundedDropOnFull ==
    \A q \in QueueIds :
        queue[q] # <<>> => (QueueMaxsize > 0 /\ Len(queue[q]) <= QueueMaxsize)

\* dct.get(k, [])
GetOf(dct, k) == IF k \in DOMAIN dct THEN dct[k] ELSE <<>>

\* C26: unsubscribe(key, queue) removes that queue from the list of key and
\* nothing else: the other queues of the key keep their order, the key loses
\* its entry exactly when no queue is left, the other keys and the contents
\* of every queue are unchanged, and a queue that is not registered under key
\* leaves _subscribers as it is; no key is ever mapped to an empty list.
C26_UnsubscribeRemovesQueueAndEmptyKey ==
    /\ [](\A k \in DOMAIN subscribers : subscribers[k] # <<>>)
    /\ [][\A k \in Keys, q \in QueueIds :
            RegUnsubscribe(k, q) =>
                /\ GetOf(subscribers', k) = SelectSeq(GetOf(subscribers, k), LAMBDA x : x # q)
                /\ (k \in DOMAIN subscribers') <=> (SeqToSet(GetOf(subscribers, k)) \ {q} # {})
                /\ \A k2 \in Keys \ {k} :
                      /\ (k2 \in DOMAIN subscribers') <=> (k2 \in DOMAIN subscribers)
                      /\ GetOf(subscribers', k2) = GetOf(subscribers, k2)
                /\ queue' = queue
                /\ q \notin SeqToSet(GetOf(subscribers, k)) => subscribers' = subscribers]_vars

\* a queue has been unsubscribed from a key (it is held and registered
\* nowhere), the key keeps its other queue with the message it holds, and
\* the other key has no entry
C26_Witness ==
    \E q1, q2 \in QueueIds :
        /\ q1 # q2 /\ {q1, q2} \subseteq held
        /\ \A k \in Keys : q1 \notin SeqToSet(SubscribersGet(k))
        /\ DOMAIN subscribers = {CourseId}
        /\ subscribers[CourseId] = <<q2>>
        /\ queue[q2] # <<>>

(* ======================= claims about startGeneration ================= *)

\* requests r and q overlapped: one arrived while the other was being handled
Overlapped(r, q) == q \in req[r].during \/ r \in req[q].during

\* the tasks start_generation has spawned
Spawned == {t \in TaskIds : tasks[t].state # "unborn"}

\* C12: when two start requests for a draft course with objectives overlap in
\* time, one of them is accepted, the other one is answered 409 and exactly
\* one job has been spawned.
C12_OverlappingStartsOneJobOne409 ==
    \A r, q \in RequestIds :
        (/\ r < q /\ objectives >= 1
         /\ \A x \in RequestIds \ {r, q} : req[x].pc = "idle"
         /\ Overlapped(r, q)
         /\ req[r].pc = "done" /\ req[q].pc = "done")
            => /\ {req[r].response, req[q].response} = {"accepted", "409"}
               /\ Cardinality(Spawned) = 1

\* C13: a start request is only ever answered accepted, 409 or 400, and the
\* request whose transition to 'generating' is refused (here: the course has
\* no objectives) is answered 400.
C13_StartAnswersAccepted409Or400 ==
    \A r \in RequestIds :
        /\ req[r].response \in {Null, "accepted", "409", "400"}
        /\ (req[r].pc = "done" /\ objectives = 0) => req[r].response \in {"409", "400"}

Alone(r) == \A q \in RequestIds \ {r} : ~Overlapped(r, q)

\* C15: an assessment request that passes the is_running check and loads the
\* course in 'awaiting_assessment' or 'assessment_ready' is accepted, the
\* course is then in 'generating_assessment' or beyond and one job has been
\* spawned under the assessment key; every answer is accepted, 409 or 400.
C15_AssessmentStartAccepted ==
    \A r \in RequestIds :
        /\ req[r].response \in {Null, "accepted", "409", "400"}
        /\ (/\ req[r].pc = "done" /\ Alone(r)
            /\ req[r].loaded \in {"awaiting_assessment", "assessment_ready"})
              => /\ req[r].response = "accepted"
                 /\ \E t \in Spawned : tasks[t].key = AKey

\* the assessment task t has made its create-assessment call and it succeeded
CreateSucceeded(t) == <<"create", 0, TRUE>> \in calls[t]

TerminalEvents ==
    {"generation_complete", "generation_error", "assessment_complete", "assessment_error"}

\* C11: a stream that closes without the client having disconnected has sent
\* a *_complete or *_error event last, and every stream a client has opened
\* is eventually closed this way or left by the client, when the coroutines,
\* the database, the agents and the timers are not held up for ever.
C11_StreamEndsWithTerminalEvent ==
    /\ [](\A c \in ClientIds :
            client[c].pc = "closed"
                => /\ client[c].received # <<>>
                   /\ Last(client[c].received).event \in TerminalEvents)
    /\ \A c \in ClientIds :
          (client[c].pc \in {"connected", "subscribed"})
              ~> (client[c].pc \in {"closed", "disconnected"})

\* a generation stream that connected while the job was running, subscribed
\* after the job had published its last event, and was closed by the timeout
\* with generation_complete as its only event
C11_Witness ==
    \E c \in ClientIds :
        /\ client[c].pc = "closed" /\ client[c].stream = "generation"
        /\ client[c].in_flight /\ ~client[c].early
        /\ \E t \in TaskIds : job[t].pc = "done" /\ published[t] # <<>>
        /\ client[c].received = <<CompleteMessage(0)>>

(* ===================== claims about the order of events =============== *)

\* the place of an event in the unit of work of one objective
EventRank(m) ==
    CASE m.event = "lesson_planned" -> 1
      [] m.event = "lesson_written" -> 2
      [] m.event = "activity_created" -> 3
      [] m.event = "generation_error" -> 4
      [] OTHER -> 5

\* the event is about one objective (the fatal error carries index -1)
AboutObjective(m) == m.event # "generation_complete" /\ m.index # -1

\* C21: in what one generation job publishes, the events of an objective come
\* as lesson_planned, lesson_written, activity_created, or as a prefix of these
\* followed by one generation_error; the objectives come in increasing index
\* order starting at 0, each one begun only when the one before has had its
\* activity_created or its error; generation_complete is published once, as
\* the last event, and a job that has ended has published it.
C21_EventsInPipelineOrder ==
    \A t \in TaskIds :
        LET p == published[t]
        IN  /\ \A k \in 1..Len(p) : p[k].event = "generation_complete" => k = Len(p)
            /\ job[t].pc = "done" => (p # <<>> /\ Last(p).event = "generation_complete")
            /\ (p # <<>> /\ AboutObjective(p[1]))
                  => (p[1].index = 0 /\ EventRank(p[1]) \in {1, 4})
            /\ \A k \in 1..(Len(p) - 1) :
                  AboutObjective(p[k + 1]) =>
                      \/ /\ p[k + 1].index = p[k].index
                         /\ EventRank(p[k]) < 3
                         /\ EventRank(p[k + 1]) \in {EventRank(p[k]) + 1, 4}
                      \/ /\ p[k + 1].index = p[k].index + 1
                         /\ EventRank(p[k]) \in {3, 4}
                         /\ EventRank(p[k + 1]) \in {1, 4}

\* a job whose writer failed for objective 0 went on to publish the three
\* events of objective 1 and then generation_complete
C21_Witness ==
    \E t \in TaskIds :
        /\ job[t].pc = "done" /\ objectives = 2
        /\ published[t] = <<Message("lesson_planned", 0, FALSE, 0), ErrorMessage(0)>>
                           \o RealTrio(1) \o <<CompleteMessage(1)>>

(* ================== claims about the stream at connect ================ *)

\* the resource was finished when the handler of stream c loaded it
Finished(c) ==
    IF client[c].stream = "generation" THEN client[c].all_lessons /\ client[c].quiet
    ELSE client[c].has_assessment

\* the terminal event that reports the state stream c loaded
TerminalOfLoaded(c) ==
    IF client[c].stream = "generation" THEN CompleteMessage(client[c].lesson_count)
    ELSE AMessage("assessment_complete")

\* C22: a stream whose handler loaded a finished resource (a Lesson with an
\* Activity for every objective while nothing was running, or an Assessment)
\* never subscribes: after the catch-up events it sends the terminal event
\* with the count of the rows it loaded, and closes.
C22_FinishedAtConnectClosesAtOnce ==
    \A c \in ClientIds :
        Finished(c)
            => /\ client[c].pc \in {"connected", "closed"}
               /\ c \notin SeqToSet(SubscribersGet(CourseId))
               /\ c \notin SeqToSet(SubscribersGet(AKey))
               /\ client[c].pc = "closed"
                     => Last(client[c].received) = TerminalOfLoaded(c)

\* C22 for a course that only one start request was ever made for: the
\* status such a course is left with is never 'generating' once all its
\* lessons exist and nothing runs
FinishedClosesAtOnceWhenSoleRequest ==
    SoleRequest =>
        \A c \in ClientIds :
            Finished(c)
                => /\ client[c].pc \in {"connected", "closed"}
                   /\ client[c].pc = "closed"
                         => Last(client[c].received) = TerminalOfLoaded(c)

\* nothing was running and nothing was finished when the handler of stream c
\* loaded the resource: a draft course without lessons, or a course without
\* an Assessment that is not in 'generating_assessment'
NothingInProgress(c) ==
    /\ ~client[c].in_flight
    /\ IF client[c].stream = "generation"
       THEN client[c].quiet /\ client[c].status = "draft" /\ client[c].lesson_count = 0
       ELSE ~client[c].has_assessment /\ client[c].status # "generating_assessment"

\* C23: a stream whose handler found no job running and the resource not
\* finished closes with an error event ('nothing in progress') and sends no
\* complete event.
C23_NothingInProgressEndsWithError ==
    \A c \in ClientIds :
        (client[c].pc = "closed" /\ NothingInProgress(c))
            => /\ Last(client[c].received).event \in {"generation_error", "assessment_error"}
               /\ \A k \in 1..Len(client[c].received) :
                     client[c].received[k].event
                         \notin {"generation_complete", "assessment_complete"}

\* the assessment half of C23: an assessment stream opened on a course with
\* no Assessment and no assessment job closes with assessment_error
AssessmentStreamReportsNothingInProgress ==
    \A c \in ClientIds :
        (client[c].pc = "closed" /\ client[c].stream = "assessment" /\ NothingInProgress(c))
            => client[c].received = <<AMessage("assessment_error")>>

(* ================ claims about what the pipeline persists ============= *)

\* C24: once a generation job has committed the status 'in_progress', the
\* Lesson of objective index 0 exists and is unlocked, whichever objectives
\* of the run succeeded or failed.
C24_InProgressIsPlayable ==
    \A t \in TaskIds :
        job[t].outcome = "in_progress"
            => \E j \in 1..Len(db_lessons) :
                  /\ db_lessons[j].objective_index = 0
                  /\ db_lessons[j].status = "unlocked"

\* a Lesson row of objective index i whose content is committed
LessonCommitted(i) ==
    \E j \in 1..Len(db_lessons) :
        db_lessons[j].objective_index = i /\ db_lessons[j].lesson_content

\* a Lesson row of objective index i with a committed Activity
ActivityCommitted(i) ==
    \E j \in 1..Len(db_lessons) :
        db_lessons[j].objective_index = i /\ db_lessons[j].activities > 0

\* the rows half of C29: what a lesson_written or activity_created event that
\* is not marked skipped announces is committed
PublishedRowsAreCommitted ==
    \A t \in TaskIds : \A k \in 1..Len(published[t]) :
        LET m == published[t][k]
        IN  /\ (m.event = "lesson_written" /\ ~m.skipped) => LessonCommitted(m.index)
            /\ (m.event = "activity_created" /\ ~m.skipped) => ActivityCommitted(m.index)

\* C29: when a job has published a lesson_written or activity_created event
\* that is not marked skipped, the Lesson content or the Activity of that
\* index is committed; when a job that loaded the course in 'generating' has
\* published generation_complete, it has committed its final transition, so
\* that the course is no longer in 'generating' (no other start request
\* having been made).
C29_EventsFollowCommits ==
    /\ PublishedRowsAreCommitted
    /\ \A t \in TaskIds :
          (/\ published[t] # <<>> /\ Last(published[t]).event = "generation_complete"
           /\ job[t].status = "generating")
              => /\ job[t].outcome \in {"in_progress", "generation_failed"}
                 /\ SoleRequest => db_status = job[t].outcome

\* the complete half of C29 for the runs with at least one success: they
\* commit 'in_progress' before generation_complete is published
CompleteFollowsCommitWhenSomeSuccess ==
    \A t \in TaskIds :
        (/\ published[t] # <<>> /\ Last(published[t]).event = "generation_complete"
         /\ Last(published[t]).count > 0 /\ job[t].status = "generating")
            => /\ job[t].outcome = "in_progress"
               /\ SoleRequest => db_status = "in_progress"

\* task t went through the outer except clause
WentFatal(t) ==
    \E k \in 1..Len(published[t]) : published[t][k] = ErrorMessage(-1)

\* the publishing half of C30: the outer except clause publishes
\* generation_error and then generation_complete, as the last two events
FatalPublishesErrorThenComplete ==
    \A t \in TaskIds :
        WentFatal(t)
            => /\ Len(published[t]) >= 2
               /\ published[t][Len(published[t]) - 1] = ErrorMessage(-1)
               /\ Last(published[t]) = CompleteMessage(job[t].lessons_created)

\* C30: a job that went through the outer except clause (the load failed, or
\* the final transition did) has published generation_error and then
\* generation_complete as its last two events, and has rolled the status
\* back: the course is not left in 'generating' (no other start request
\* having been made).
C30_FatalErrorRollsBackAndReports ==
    /\ FatalPublishesErrorThenComplete
    /\ \A t \in TaskIds :
          (WentFatal(t) /\ SoleRequest) => db_status # "generating"

(* ============== claims about cleanup and client disconnect ============ *)

\* only task 1 has published anything
OnlyFirstRunPublished == \A t \in TaskIds \ {1} : published[t] = <<>>

\* C27: the done callback of a job sets the registry entry of the job's key
\* to absent and changes nothing else: not the other key's entry, not
\* _subscribers, not the contents of any queue. So a subscriber that was
\* there from the start still holds, in what it has received and what its
\* queue keeps, the whole stream of the run, generation_complete included,
\* when the job has ended and its cleanup has run.
C27_CleanupLeavesEventBusAlone ==
    /\ [][\A t \in TaskIds :
            JobDoneCallback(t) =>
                /\ active_tasks' = [active_tasks EXCEPT ![tasks[t].key] = NoTask]
                /\ subscribers' = subscribers
                /\ queue' = queue]_vars
    /\ [](\A c \in ClientIds :
            (/\ client[c].pc = "subscribed" /\ client[c].stream = "generation"
             /\ client[c].early /\ FirstRunClean /\ OnlyFirstRunPublished
             /\ callbacks = {})
                => client[c].received \o queue[c] = ExpectedStream(0, objectives))

\* the job has ended and its cleanup has run; the subscriber has read nothing
\* yet and its queue holds the seven events of the two-objective run
C27_Witness ==
    /\ objectives = 2 /\ FirstRunClean
    /\ callbacks = {} /\ active_tasks[CourseId] = NoTask
    /\ client[1].pc = "subscribed" /\ client[1].received = <<>>
    /\ SubscribersGet(CourseId) = <<1>>
    /\ queue[1] = ExpectedStream(0, 2)

\* C28: a client leaving its stream takes its own queue out of the list of
\* the key and changes nothing else: the tasks, the registry, the position of
\* the job, the database, the other queues and the other clients are as
\* before. So a client that subscribed before the first event holds, in
\* what it has received and what its queue keeps, every event the job has
\* published, whichever other clients have left meanwhile.
C28_DisconnectLeavesJobAndOthersAlone ==
    /\ [][\A c \in Watchers :
            StreamDisconnect(c) =>
                /\ UNCHANGED <<active_tasks, tasks, callbacks, job, published, calls, dbVars>>
                /\ GetOf(subscribers', CourseId)
                       = SelectSeq(GetOf(subscribers, CourseId), LAMBDA x : x # c)
                /\ \A d \in Watchers \ {c} :
                       queue'[d] = queue[d] /\ client'[d] = client[d]]_vars
    /\ [](\A d \in Watchers :
            (client[d].pc = "subscribed" /\ client[d].early)
                => client[d].received \o queue[d] = published[1])

\* client 1 has left while the job was running; the job has gone on to its
\* writer call, and client 2 is still subscribed and holds what the job
\* has published
C28_Witness ==
    /\ client[1].pc = "disconnected"
    /\ job[1].pc = "activity" /\ job[1].i = 1
    /\ client[2].pc = "subscribed" /\ client[2].early
    /\ SubscribersGet(CourseId) = <<2>>
    /\ active_tasks[CourseId] = 1
    /\ Len(published[1]) = 5
    /\ client[2].received \o queue[2] = published[1]

(* ===================== claims about the stream loop =================== *)

\* the step of client c is the timeout branch that ends the stream: it was
\* subscribed, its queue was empty, and it is closed afterwards
TimeoutCloses(c) ==
    client[c].pc = "subscribed" /\ queue[c] = <<>> /\ client'[c].pc = "closed"

\* the number of objective indexes with a Lesson that has content and an Activity
CompleteLessons ==
    Cardinality({i \in ObjectiveIndexes : \E j \in 1..Len(db_lessons) :
                    /\ db_lessons[j].objective_index = i
                    /\ db_lessons[j].lesson_content /\ db_lessons[j].activities > 0})

\* the assessment half of C31: the terminal event of a timed-out assessment
\* stream tells whether an Assessment is persisted at that moment
AssessmentTimeoutRereads ==
    [][\A c \in ClientIds :
          (TimeoutCloses(c) /\ client[c].stream = "assessment")
              => Last(client'[c].received) =
                    (IF db_assessments > 0 THEN AMessage("assessment_complete")
                                           ELSE AMessage("assessment_error"))]_vars

\* the keepalive half of C31: a stream whose job is still running stays
\* subscribed when its wait times out
TimeoutWhileRunningKeepsWaiting ==
    [][\A c \in ClientIds :
          (client[c].pc = "subscribed" /\ queue[c] = <<>>
             /\ is_running(IF client[c].stream = "generation" THEN CourseId ELSE AKey))
              => client'[c].pc \in {"subscribed", "disconnected"}]_vars

\* C31: when the wait of a subscribed stream times out and no job is running,
\* the terminal event the stream sends reflects what is persisted at that
\* moment: for the generation stream, generation_complete carries the number
\* of Lesson rows (or of Lessons with content and an Activity) the database
\* holds then, not the number read when the client connected
C31_TimeoutReportsPersistedState ==
    [][\A c \in ClientIds :
          (TimeoutCloses(c) /\ client[c].stream = "generation")
              => /\ Last(client'[c].received).event = "generation_complete"
                 /\ Last(client'[c].received).count \in {Len(db_lessons), CompleteLessons}]_vars

\* the step of client c relays a message: what it has received changes while
\* it stays connected
Relays(c) ==
    /\ client[c].pc = "subscribed"
    /\ client'[c].pc # "disconnected"
    /\ client'[c].received # client[c].received

\* the relaying half of C32: what a subscribed stream relays from a queue that
\* holds something is the head of the queue, appended unchanged to what the
\* client has received; the queue loses it, or is dropped when the stream ends
RelaysHeadOfQueue ==
    [][\A c \in ClientIds :
          (Relays(c) /\ queue[c] # <<>>)
              => /\ client'[c].received = Append(client[c].received, Head(queue[c]))
                 /\ \/ queue'[c] = Tail(queue[c])
                    \/ client'[c].pc = "closed" /\ queue'[c] = <<>>]_vars

\* the events the loops of the two streams return after (courses.py:175,
\* assessments.py:323)
ClosingEvents == {"generation_complete", "assessment_complete", "assessment_error"}

\* the closing half of C32 for the events the code names: such an event is
\* the last one the client receives and the stream is closed after it
ClosesAfterClosingEvent ==
    \A c \in ClientIds : \A k \in 1..Len(client[c].received) :
        client[c].received[k].event \in ClosingEvents
            => k = Len(client[c].received) /\ client[c].pc = "closed"

\* an event of a terminal kind: a *_complete event, or an *_error event that
\* is not about one objective of the run
TerminalKind(m) ==
    \/ m.event \in {"generation_complete", "assessment_complete", "assessment_error"}
    \/ m.event = "generation_error" /\ m.index = -1

\* C32: a subscribed stream relays the events of its queue unchanged and in
\* queue order, and an event of a terminal kind (complete or error) is the
\* last one it relays: the stream is closed once the client has received it
C32_RelaysInOrderAndClosesOnTerminal ==
    /\ RelaysHeadOfQueue
    /\ [](\A c \in ClientIds : \A k \in 1..Len(client[c].received) :
            TerminalKind(client[c].received[k])
                => k = Len(client[c].received) /\ client[c].pc = "closed")

\* the queues registered under key k
RegisteredQueues(k) == SeqToSet(SubscribersGet(k))

\* the key the stream of client c subscribes under
KeyOf(c) == IF client[c].stream = "generation" THEN CourseId ELSE AKey

\* the stream handlers that are inside their loop under key k
InsideLoop(k) == {c \in DOMAIN client : client[c].pc = "subscribed" /\ KeyOf(c) = k}

\* C33: the queues registered in the Event Bus are exactly those of the
\* stream handlers that subscribed and are still inside their loop, each
\* once and under its own key, and no key is kept with an empty list: a
\* handler that left its loop, after a terminal event, after the timeout
\* fallback or because the client went away, has no queue left in the bus
C33_NoQueueLeaked ==
    /\ \A k \in Keys :
          /\ RegisteredQueues(k) = InsideLoop(k)
          /\ Len(SubscribersGet(k)) = Cardinality(InsideLoop(k))
    /\ \A k \in DOMAIN subscribers : subscribers[k] # <<>>

\* a stream that subscribed has ended and the bus holds no queue
C33_Witness ==
    /\ \E c \in DOMAIN client :
          /\ client[c].pc = "closed" /\ client[c].early
          /\ client[c].received # <<>>
    /\ subscribers = << >>

(* ================= the start requests of one course ==================== *)

MaxRetries == 3

\* the start requests made for the course, first attempt and retries
Retriers == 1..MaxRetries

\* a draft course with objectives; nobody watches the stream
InitRetries ==
    /\ InitRegistry
    /\ InitBus
    /\ InitLifecycleIdle
    /\ objectives \in 1..MaxObjectives
    /\ db_status = "draft"
    /\ db_lessons = <<>>
    /\ db_assessments = 0
    /\ req = [r \in Retriers |-> IdleRequest]
    /\ job = [t \in TaskIds |-> IdleJob]
    /\ published = [t \in TaskIds |-> <<>>]
    /\ calls = [t \in TaskIds |-> {}]
    /\ client = [c \in ClientIds |-> IdleClient]

NextRetries ==
    \/ \E r \in Retriers : ReqCheck(r)
    \/ \E r \in Retriers : ReqLoad(r)
    \/ \E r \in Retriers : ReqCommit(r)
    \/ \E r \in Retriers : ReqSpawn(r)
    \/ \E t \in TaskIds : JobLoad(t)
    \/ \E t \in TaskIds : JobLoadFails(t)
    \/ \E t \in TaskIds, ok \in BOOLEAN : JobPlan(t, ok)
    \/ \E t \in TaskIds, ok \in BOOLEAN : JobWrite(t, ok)
    \/ \E t \in TaskIds, ok \in BOOLEAN : JobActivity(t, ok)
    \/ \E t \in TaskIds : JobFinalize(t)
    \/ \E t \in TaskIds : JobComplete(t)
    \/ \E t \in TaskIds : JobFatal(t)
    \/ \E t \in TaskIds : JobDoneCallback(t)

\* one course, its start requests and the runs they spawn
SpecRetries == InitRetries /\ [][NextRetries]_vars

(* ================ claims about the rows and the status ================ *)

\* the Lesson rows of objective index i
RowsOf(i) == {j \in 1..Len(db_lessons) : db_lessons[j].objective_index = i}

\* C34: whatever runs and retries a course has gone through, it has at most
\* one Lesson row per objective index
C34_OneLessonPerObjective ==
    \A i \in ObjectiveIndexes : Cardinality(RowsOf(i)) <= 1

\* a generation job of the course is running, or the request that committed
\* 'generating' is about to call start_generation
JobRunningOrComing ==
    \/ is_running(CourseId)
    \/ \E t \in TaskIds : tasks[t].state = "running" /\ tasks[t].key = CourseId
    \/ \E r \in DOMAIN req : req[r].pc = "spawn" /\ req[r].endpoint = "generate"

\* C35 for a course only one start request was made for: it is in
\* 'generating' with no job only after a run that made no lesson or went
\* through the outer except clause
GeneratingWithoutJobOnlyAfterFailedRun ==
    (SoleRequest /\ db_status = "generating" /\ ~JobRunningOrComing)
        => /\ job[1].pc = "done"
           /\ job[1].lessons_created = 0 \/ WentFatal(1)

\* C35: whenever the persisted status of the course is 'generating', a
\* generation job of the course is running or is about to be spawned by the
\* request that committed the status
C35_GeneratingHasJob ==
    db_status = "generating" => JobRunningOrComing

\* the course is in 'generating', no task runs and no start request is about
\* to commit or to spawn
StuckInGenerating ==
    /\ db_status = "generating"
    /\ \A t \in TaskIds : tasks[t].state # "running"
    /\ \A r \in DOMAIN req : req[r].pc \notin {"commit", "spawn"}

\* a course that is stuck in 'generating' stays so whatever is done next: a
\* further start request is answered 400, the status being neither 'draft'
\* nor 'generation_failed'
StuckInGeneratingIsForEver ==
    [][StuckInGenerating => StuckInGenerating']_vars

\* C36: after a generation request is accepted, the course eventually has a
\* status other than 'generating', when the coroutines, the database and the
\* agents are not held up for ever
C36_AcceptedRequestLeavesGenerating ==
    \A r \in RequestIds :
        (req[r].endpoint = "generate" /\ req[r].response = "accepted")
            ~> (db_status # "generating")

(* ================ get_assessment (routers/assessments) ================ *)

\* lines 203-217: the handler loads the course; when its status is
\* 'generating_assessment' and no task runs under the assessment key it
\* assigns course.status = 'awaiting_assessment' and commits. The rest of the
\* handler only reads
get_assessment ==
    /\ IF db_status = "generating_assessment" /\ ~is_running(AKey)
       THEN db_status' = "awaiting_assessment"
       ELSE UNCHANGED db_status
    /\ UNCHANGED <<regVars, busVars, lcVars, objectives, db_lessons, db_assessments,
                   req, job, published, calls, client>>

NextHeal ==
    \/ NextAssessment
    \/ get_assessment

\* the assessment orchestrator together with the reads of the assessment
SpecHeal == InitAssessment /\ [][NextHeal]_vars

(* ============= claims about the writes of the course status =========== *)

\* status a can move to status b along a listed pair whose guard the
\* persisted course satisfies
ListedStep(a, b) ==
    /\ <<a, b>> \in DOMAIN TRANSITIONS
    /\ check_guard(CourseView(a, db_lessons), TRANSITIONS[<<a, b>>])

\* one listed step, or two of them committed together (the pipeline commits
\* 'active' and 'in_progress' at once)
ListedPath(a, b) ==
    \/ ListedStep(a, b)
    \/ \E m \in Statuses : ListedStep(a, m) /\ ListedStep(m, b)

\* C37 for a course a single start request was made for: the status moves
\* along listed pairs only
SoleRequestMovesAlongListedPairs ==
    [][(SoleRequest' /\ db_status' # db_status) => ListedPath(db_status, db_status')]_vars

LessonsWithoutActivity == {j \in 1..Len(db_lessons) : db_lessons[j].activities = 0}

\* C38 for the runs in which no external call fails: the course the pipeline
\* moves to 'in_progress' has an Activity for every Lesson
CleanRunLeavesNoLessonWithoutActivity ==
    (db_status = "in_progress" /\ \A t \in TaskIds : \A call \in calls[t] : call[3])
        => LessonsWithoutActivity = {}

\* C38: a course the pipeline has moved to 'in_progress' has an Activity for
\* every one of its Lessons, so that every Lesson can be completed
C38_InProgressLessonsHaveActivity ==
    db_status = "in_progress" => LessonsWithoutActivity = {}

\* the generation_complete events task t has published
CompletesOf(t) == SelectSeq(published[t], LAMBDA m : m.event = "generation_complete")

\* C39: a run of the pipeline publishes generation_complete exactly once,
\* whichever way it ends: none while it runs, one, its last event, when it
\* has returned normally or through the outer except clause
C39_ExactlyOneComplete ==
    \A t \in TaskIds :
        /\ job[t].pc # "done" => Len(CompletesOf(t)) = 0
        /\ job[t].pc = "done"
              => /\ Len(CompletesOf(t)) = 1
                 /\ Last(published[t]).event = "generation_complete"

\* one run has ended through the outer except clause and another one normally,
\* after an objective failed
C39_Witness ==
    \E t, u \in TaskIds :
        /\ job[t].pc = "done" /\ WentFatal(t) /\ Len(CompletesOf(t)) = 1
        /\ job[u].pc = "done" /\ ~WentFatal(u) /\ Len(CompletesOf(u)) = 1
        /\ FailedIdx(u) # {}

\* the step publishes generation_complete for task t
PublishesComplete(t) ==
    /\ published'[t] # published[t]
    /\ Last(published'[t]).event = "generation_complete"

\* C40 for a course a single start request was made for
SoleRequestCompleteCountsCommittedLessons ==
    [][\A t \in TaskIds :
          (PublishesComplete(t) /\ SoleRequest)
              => Last(published'[t]).count = CompleteLessons]_vars

\* C40: the lesson_count of a generation_complete event is the number of
\* objective indexes for which a Lesson with content and an Activity are
\* committed when the event is published
C40_CompleteCountsCommittedLessons ==
    [][\A t \in TaskIds :
          PublishesComplete(t) => Last(published'[t]).count = CompleteLessons]_vars

====
